---- MODULE Spec2Model ----
(***************************************************************************)
(* GameTracking: the catalog reconciliation pipeline.                      *)
(*                                                                         *)
(* The durable state is the three SQLite tables written by                 *)
(* api/app/database.py (games, catalog_items, igdb_cache); the process     *)
(* state is the module-level memo _igdb_lookup_cache of                    *)
(* api/app/fetchers/gamepass.py and the token cache of                     *)
(* api/app/igdb_client.py.  Every handler is one action; only              *)
(* upsert_catalog_item and ensure_game_from_catalog, whose read and write  *)
(* are two transactions, and the pagination loop of _iter_api_entries,     *)
(* which waits for the upstream at every pass, are also given step by      *)
(* step (SpecRace, SpecEnsureRace, SpecPaging).                            *)
(*                                                                         *)
(* Encodings.  A Python str is a tuple of one-character strings, so that   *)
(* lower(), strip(), LIKE and json.dumps are computed character by         *)
(* character.  None is the integer 0 where an igdb id or a year is         *)
(* expected (IGDB ids and years are positive).  A datetime is a            *)
(* natural number; isoformat() of datetimes of one format is order         *)
(* preserving and is kept as that number.  The bookkeeping columns         *)
(* created_at / updated_at are written by the code and read by nothing;    *)
(* they are left out.                                                      *)
(***************************************************************************)
EXTENDS Integers, Sequences, FiniteSets, TLC

VARIABLES
    games,              \* table games: set of rows, unique on igdb_id
    catalog_items,      \* table catalog_items: set of rows, unique on (service, igdb_id, region)
    igdb_cache,         \* table igdb_cache: set of rows, unique on name
    igdb_lookup_cache,  \* gamepass._igdb_lookup_cache: function lower-cased title -> id or None
    threads,            \* concurrent callers of upsert_catalog_item (SpecRace)
    seen_hist,          \* observer: per key, the seen_at of every completed upsert_catalog_item
    last_upsert,        \* observer: the last upsert_catalog_item call and the rows before it
    last_search,        \* observer: the last search_games call
    last_resolve,       \* observer: the last _resolve_igdb_id call
    ever_resolved,      \* observer: per lower-cased title, the first id _resolve_igdb_id returned
    missed_titles,      \* observer: lower-cased titles whose latest _resolve_igdb_id returned None
    remote_resolved,    \* observer: the <<title, id>> pairs resolved by a successful remote search
    last_refresh,       \* observer: the last reconciliation cycle / POST /refresh
    last_extract,       \* observer: the last _extract_platforms call
    last_ensure,        \* observer: the last direct ensure_game_from_catalog call
    last_query,         \* observer: the last GET /search request
    ensure_thread,      \* the ensure_game_from_catalog call in progress (SpecEnsureRace)
    token_cache,        \* igdb_client._token_cache: [value, expires]
    utcnow,             \* the clock datetime.utcnow() reads, in seconds (SpecToken)
    last_token,         \* observer: the last _get_token call
    fetch,              \* the _iter_api_entries generator in progress (SpecPaging)
    last_fetch,         \* observer: the last complete run of _iter_api_entries
    nops                \* number of operations performed so far

vars == <<games, catalog_items, igdb_cache, igdb_lookup_cache, threads, seen_hist,
          last_upsert, last_search, last_resolve, ever_resolved, missed_titles,
          remote_resolved, last_refresh, last_extract, last_ensure,
          last_query, ensure_thread, token_cache, utcnow, last_token, fetch,
          last_fetch, nops>>

(***************************************************************************)
(* Bounds of the model.                                                    *)
(***************************************************************************)
MaxTime == 3        \* observation times are 1..MaxTime
MaxOps == 3         \* operations per behaviour

None == 0

Times == 1..MaxTime

(***************************************************************************)
(* Strings.                                                                *)
(***************************************************************************)
LowerLetters ==
    <<"a", "b", "c", "d", "e", "f", "g", "h", "i", "j", "k", "l", "m",
      "n", "o", "p", "q", "r", "s", "t", "u", "v", "w", "x", "y", "z">>

UpperLetters ==
    <<"A", "B", "C", "D", "E", "F", "G", "H", "I", "J", "K", "L", "M",
      "N", "O", "P", "Q", "R", "S", "T", "U", "V", "W", "X", "Y", "Z">>

IsIn(letters, c) == \E i \in 1..Len(letters) : letters[i] = c

IndexIn(letters, c) == CHOOSE i \in 1..Len(letters) : letters[i] = c

LowerChar(c) == IF IsIn(UpperLetters, c) THEN LowerLetters[IndexIn(UpperLetters, c)] ELSE c

\* str.lower() / SQL lower() (they agree on ASCII)
Lower(s) == [i \in 1..Len(s) |-> LowerChar(s[i])]

RECURSIVE LStrip(_)
LStrip(s) == IF s # <<>> /\ Head(s) = " " THEN LStrip(Tail(s)) ELSE s

RECURSIVE RStrip(_)
RStrip(s) ==
    IF s # <<>> /\ s[Len(s)] = " " THEN RStrip(SubSeq(s, 1, Len(s) - 1)) ELSE s

\* str.strip()
Strip(s) == RStrip(LStrip(s))

\* byte value of a character (SQLite BINARY collation, Python str comparison)
CharCode(c) ==
    IF IsIn(LowerLetters, c) THEN 96 + IndexIn(LowerLetters, c)
    ELSE IF IsIn(UpperLetters, c) THEN 64 + IndexIn(UpperLetters, c)
    ELSE CASE c = " " -> 32
           [] c = "\"" -> 34
           [] c = "," -> 44
           [] c = "1" -> 49
           [] c = "2" -> 50
           [] c = "[" -> 91
           [] c = "]" -> 93
           [] c = "_" -> 95
           [] OTHER -> 127

RECURSIVE StrLess(_, _)
StrLess(s, t) ==
    IF t = <<>> THEN FALSE
    ELSE IF s = <<>> THEN TRUE
    ELSE IF CharCode(Head(s)) # CharCode(Head(t))
         THEN CharCode(Head(s)) < CharCode(Head(t))
         ELSE StrLess(Tail(s), Tail(t))

StrLeq(s, t) == s = t \/ StrLess(s, t)

\* needle in hay
Contains(hay, needle) ==
    \E i \in 0..(Len(hay) - Len(needle)) : SubSeq(hay, i + 1, i + Len(needle)) = needle

RECURSIVE Concat(_)
Concat(ss) == IF ss = <<>> THEN <<>> ELSE Head(ss) \o Concat(Tail(ss))

\* json.dumps of a list of str: ["x", "y"]  (the model's names hold no character
\* that json.dumps escapes)
JsonDumps(xs) ==
    <<"[">>
    \o Concat([i \in 1..Len(xs) |->
                  (IF i > 1 THEN <<",", " ">> ELSE <<>>) \o <<"\"">> \o xs[i] \o <<"\"">>])
    \o <<"]">>

\* the scanner of json.loads from character i on: inStr says whether i is inside a
\* string, cur is the string read so far, acc the strings completed
RECURSIVE JsonScan(_, _, _, _, _)
JsonScan(s, i, inStr, cur, acc) ==
    IF i > Len(s) THEN acc
    ELSE LET quote == s[i] = "\""
         IN  JsonScan(s, i + 1, inStr # quote,
                      IF inStr /\ ~quote THEN Append(cur, s[i]) ELSE <<>>,
                      IF inStr /\ quote THEN Append(acc, cur) ELSE acc)

\* json.loads of the text of a list of str
JsonLoads(s) == JsonScan(s, 1, FALSE, <<>>, <<>>)

\* SQLite's LIKE: % matches any run of characters, _ any one character, and
\* ASCII letters match without regard to case.  A position k of the pattern p says
\* that p[1..k-1] has matched the characters read so far.
\* the positions reached from those of at by letting % match nothing
LikeSkip(p, at) ==
    {k \in 1..(Len(p) + 1) : \E a \in at : a <= k /\ \A m \in a..(k - 1) : p[m] = "%"}

\* the positions after one more character c
LikeStep(p, at, c) ==
    LikeSkip(p, {k \in at : k <= Len(p) /\ p[k] = "%"}
                \cup {k + 1 : k \in {a \in at : /\ a <= Len(p)
                                                /\ p[a] # "%"
                                                /\ \/ p[a] = "_"
                                                   \/ LowerChar(p[a]) = LowerChar(c)}})

RECURSIVE LikeFrom(_, _, _)
LikeFrom(p, at, s) ==
    IF s = <<>> THEN (Len(p) + 1) \in at ELSE LikeFrom(p, LikeStep(p, at, Head(s)), Tail(s))

Like(p, s) == LikeFrom(p, LikeSkip(p, {1}), s)

(***************************************************************************)
(* database.py: the catalog_items table.                                   *)
(***************************************************************************)
Services == {"gamepass", "psplus"}
Ids == {1, 2}
Regions == {"US", "GB"}

sA == <<"a">>
sAb == <<"A", "b">>
sab == <<"a", "b">>
sUab == <<"A", "B">>
sb == <<"b">>
sUnd == <<"_">>
sBlank == <<" ">>
sSpA == <<" ", "a">>
sC == <<"c">>

wPc == <<"p", "c">>
wWindows == <<"w", "i", "n", "d", "o", "w", "s">>
wWin == <<"w", "i", "n">>
wPcGamePass == <<"p", "c", " ", "g", "a", "m", "e", " ", "p", "a", "s", "s">>
wXbox == <<"x", "b", "o", "x">>
wConsole == <<"c", "o", "n", "s", "o", "l", "e">>
wXboxConsole == wXbox \o <<" ">> \o wConsole
wXboxGamePass == wXbox \o <<" ", "g", "a", "m", "e", " ", "p", "a", "s", "s">>
wXboxOne == wXbox \o <<" ", "o", "n", "e">>
wXboxSeries == wXbox \o <<" ", "s", "e", "r", "i", "e", "s">>
wCloud == <<"c", "l", "o", "u", "d">>
wCloudGaming == wCloud \o <<" ", "g", "a", "m", "i", "n", "g">>
wXcloud == <<"x">> \o wCloud

\* list(platforms or []) of upsert_catalog_item: a platforms argument is
\* [kind |-> "none"], [kind |-> "list", val |-> tokens] or [kind |-> "int", val |-> n].
\* A non-zero int is truthy and not iterable: list() raises TypeError.
PlatformsRaises(p) == p.kind = "int" /\ p.val # 0

PlatformsList(p) == IF p.kind = "list" THEN p.val ELSE <<>>

\* WHERE service = ? AND igdb_id = ? AND region = ?
\* the rows of the game of item in every service and region
KeyRowsOfGame(cat, item) == {r \in cat : r.igdb_id = item.igdb_id}

KeyRows(cat, item) ==
    {r \in cat : r.service = item.service /\ r.igdb_id = item.igdb_id
                 /\ r.region = item.region}

\* the first transaction of upsert_catalog_item: SELECT first_seen_at ...; fetchone();
\* first_seen_at = existing[0] if existing else seen_at_iso
ReadFirstSeenFresh(cat, item) == item.seen_at

ReadFirstSeen(cat, item) ==
    LET existing == KeyRows(cat, item)
    IN  IF existing # {} THEN (CHOOSE r \in existing : TRUE).first_seen_at
        ELSE item.seen_at

\* the row of the VALUES clause
CatalogRow(item, first_seen_at) ==
    [service |-> item.service, igdb_id |-> item.igdb_id,
     service_title |-> item.service_title,
     platforms_json |-> PlatformsList(item.platforms), tier |-> item.tier,
     region |-> item.region, last_seen_at |-> item.seen_at,
     first_seen_at |-> first_seen_at]

\* the second transaction: INSERT ... ON CONFLICT(service, igdb_id, region) DO UPDATE
\* SET service_title, platforms_json, tier, last_seen_at = excluded..., first_seen_at = ?
WriteCatalogRowNoConflict(cat, item, first_seen_at) ==
    cat \cup {CatalogRow(item, first_seen_at)}

WriteCatalogRowDoNothing(cat, item, first_seen_at) ==
    IF KeyRows(cat, item) # {} THEN cat ELSE cat \cup {CatalogRow(item, first_seen_at)}

WriteCatalogRow(cat, item, first_seen_at) ==
    (cat \ KeyRows(cat, item)) \cup {CatalogRow(item, first_seen_at)}

\* upsert_catalog_item run to completion by one caller.  item holds the keyword
\* arguments; store_fails: the INSERT raises (sqlite3.Error) and nothing is written.
\* Result: [cat, raised].
upsert_catalog_item(cat, item, store_fails) ==
    IF PlatformsRaises(item.platforms) THEN [cat |-> cat, raised |-> TRUE]
    ELSE LET first_seen_at == ReadFirstSeen(cat, item)
         IN  IF store_fails THEN [cat |-> cat, raised |-> TRUE]
             ELSE [cat |-> WriteCatalogRow(cat, item, first_seen_at),
                   raised |-> FALSE]

Key(x) == <<x.service, x.igdb_id, x.region>>

(***************************************************************************)
(* database.py: the games and igdb_cache tables.                           *)
(***************************************************************************)
GameRow(igdb_id, name, alt_names, first_release_year) ==
    [igdb_id |-> igdb_id, name |-> name, alt_names_json |-> JsonDumps(alt_names),
     first_release_year |-> first_release_year]

upsert_game_alone(g, igdb_id, name, alt_names, first_release_year) ==
    {GameRow(igdb_id, name, alt_names, first_release_year)}

\* INSERT INTO games ... ON CONFLICT(igdb_id) DO UPDATE SET name, alt_names_json,
\* first_release_year = excluded...
upsert_game(g, igdb_id, name, alt_names, first_release_year) ==
    {r \in g : r.igdb_id # igdb_id}
    \cup {GameRow(igdb_id, name, alt_names, first_release_year)}

\* SELECT ... FROM games WHERE igdb_id = ?
get_game(g, igdb_id) == {r \in g : r.igdb_id = igdb_id}

\* WHERE lower(name) LIKE ? OR lower(alt_names_json) LIKE ?  with pattern %query.lower()%
FindPattern(query) == <<"%">> \o Lower(query) \o <<"%">>

FindMatches(g, query) ==
    {r \in g : \/ Like(FindPattern(query), Lower(r.name))
               \/ Like(FindPattern(query), Lower(r.alt_names_json))}

\* ORDER BY name ASC: rows of equal name come in an order SQL leaves open; tie says
\* whether the lower or the higher igdb_id comes first
RowBefore(r1, r2, tie) ==
    \/ StrLess(r1.name, r2.name)
    \/ /\ r1.name = r2.name
       /\ IF tie = "lo" THEN r1.igdb_id < r2.igdb_id ELSE r1.igdb_id > r2.igdb_id

RECURSIVE OrderByName(_, _)
OrderByName(rows, tie) ==
    IF rows = {} THEN <<>>
    ELSE LET first == CHOOSE r \in rows : \A o \in rows \ {r} : RowBefore(r, o, tie)
         IN  <<first>> \o OrderByName(rows \ {first}, tie)

Take(xs, n) == SubSeq(xs, 1, IF Len(xs) < n THEN Len(xs) ELSE n)

\* find_games(query, limit): ... ORDER BY name ASC LIMIT ?
find_games(g, query, limit, tie) == Take(OrderByName(FindMatches(g, query), tie), limit)

CacheKeyExact(name) == name

\* name.lower() of cache_igdb_payload and get_cached_igdb
CacheKey(name) == Lower(name)

\* INSERT INTO igdb_cache ... ON CONFLICT(name) DO UPDATE.  payload_json holds
\* json.dumps(payload); json.loads gives the same dict back, and the row keeps the dict.
cache_igdb_payload(c, name, payload) ==
    {r \in c : r.name # CacheKey(name)}
    \cup {[name |-> CacheKey(name), igdb_id |-> payload.igdb_id, payload_json |-> payload]}

\* get_cached_igdb(name): the payloads stored under name.lower() (none or one)
get_cached_igdb(c, name) == {r.payload_json : r \in {x \in c : x.name = CacheKey(name)}}

(***************************************************************************)
(* igdb_client.py.                                                         *)
(*                                                                         *)
(* The remote identity API is the environment.  One call of _remote_search *)
(* either raises (no credentials, transport error, non-2xx status) or      *)
(* returns at most limit records.  env also says which store write of the  *)
(* write-back raises, if any, and how SQL orders rows of equal name.       *)
(***************************************************************************)
\* A bearer token is [serial, issued_at, expires_in]: the serial number of the credential
\* exchange that returned it, the clock reading of the _get_token call that made the
\* exchange and the lifetime the identity provider gave it, in seconds.  NoToken is None.
NoToken == [serial |-> 0, issued_at |-> 0, expires_in |-> 0]

Max(a, b) == IF a > b THEN a ELSE b

TokenExpiresNoMargin(now, expires_in) == now + expires_in

\* now + timedelta(seconds=max(expires_in - 60, 0))
TokenExpires(now, expires_in) == now + Max(expires_in - 60, 0)

\* _get_token() at clock reading now on the cache = [value, expires]; has_credentials:
\* both TWITCH_CLIENT_ID and TWITCH_CLIENT_SECRET are set; exchange = [fails, token]:
\* _request_token raises, or returns token with its expires_in.
\* Result: [cache, token, exchanged, raised].
get_token(cache, now, has_credentials, exchange) ==
    IF ~has_credentials
    THEN [cache |-> cache, token |-> NoToken, exchanged |-> FALSE, raised |-> FALSE]
    ELSE IF cache.value # NoToken /\ cache.expires # None /\ cache.expires > now
    THEN [cache |-> cache, token |-> cache.value, exchanged |-> FALSE, raised |-> FALSE]
    ELSE IF exchange.fails
    THEN [cache |-> cache, token |-> NoToken, exchanged |-> FALSE, raised |-> TRUE]
    ELSE [cache |-> [value |-> exchange.token,
                     expires |-> TokenExpires(now, exchange.token.expires_in)],
          token |-> exchange.token, exchanged |-> TRUE, raised |-> FALSE]

\* _serialise_cached(row)
serialise_cached(row) ==
    [igdb_id |-> row.igdb_id, name |-> row.name,
     alt_names |-> IF row.alt_names_json # <<>> THEN JsonLoads(row.alt_names_json)
                   ELSE <<>>,
     first_release_year |-> row.first_release_year]

\* [_serialise_cached(row) for row in rows]
SerialiseRows(rows) == [i \in 1..Len(rows) |-> serialise_cached(rows[i])]

\* _fallback_search(query, limit)
fallback_search(g, query, limit, tie) == SerialiseRows(find_games(g, query, limit, tie))

\* the loop of search_games over remote_results, from record i on: upsert_game, then
\* cache_igdb_payload, both inside one try; a raise skips the rest of that record's writes
RECURSIVE WriteBack(_, _, _, _, _)
WriteBack(g, c, recs, i, env) ==
    IF i > Len(recs) THEN [games |-> g, cache |-> c]
    ELSE LET rec == recs[i]
             g1 == IF env.fail_at = i /\ env.fail_kind = "game" THEN g
                   ELSE upsert_game(g, rec.igdb_id, rec.name, rec.alt_names,
                                    rec.first_release_year)
             c1 == IF env.fail_at = i THEN c ELSE cache_igdb_payload(c, rec.name, rec)
         IN  WriteBack(g1, c1, recs, i + 1, env)

\* return results[:limit], the write-back having left the tables wb
SearchReturn(wb, results, limit) ==
    [games |-> wb.games, cache |-> wb.cache, results |-> Take(results, limit),
     remote_calls |-> 1]

\* search_games(query, limit) on the tables st = [games, cache].
\* Result: [games, cache, results, remote_calls].
search_games(st, query, limit, env) ==
    LET q == Strip(query)
        remote_results == IF env.raises THEN <<>> ELSE env.results
    IN  IF q = <<>>
        THEN [games |-> st.games, cache |-> st.cache, results |-> <<>>, remote_calls |-> 0]
        ELSE SearchReturn(WriteBack(st.games, st.cache, remote_results, 1, env),
                          IF remote_results # <<>> THEN remote_results
                          ELSE fallback_search(st.games, q, limit, env.tie),
                          limit)

ensure_game_overwrite(g, name, igdb_id, first_release_year, store_fails) ==
    IF store_fails THEN [games |-> g, raised |-> TRUE]
    ELSE [games |-> upsert_game(g, igdb_id, name, <<name>>, first_release_year),
          raised |-> FALSE]

\* ensure_game_from_catalog(name, igdb_id, first_release_year=...).  store_fails: the
\* INSERT of upsert_game raises.  Result: [games, raised].
ensure_game_from_catalog(g, name, igdb_id, first_release_year, store_fails) ==
    IF get_game(g, igdb_id) # {} THEN [games |-> g, raised |-> FALSE]
    ELSE IF store_fails THEN [games |-> g, raised |-> TRUE]
    ELSE [games |-> upsert_game(g, igdb_id, name, <<name>>, first_release_year),
          raised |-> FALSE]

(***************************************************************************)
(* fetchers/gamepass.py: _resolve_igdb_id.                                 *)
(***************************************************************************)
MemoKeyExact(title) == title

\* title.lower(), the key of _igdb_lookup_cache
MemoKey(title) == Lower(title)

\* _igdb_lookup_cache.get(key): None when the key is absent (and when None is stored)
MemoGet(memo, key) == IF key \in DOMAIN memo THEN memo[key] ELSE None

\* _igdb_lookup_cache[key] = value
MemoSet(memo, key, value) ==
    [k \in DOMAIN memo \cup {key} |-> IF k = key THEN value ELSE memo[k]]

\* cached = db.get_cached_igdb(title) is a payload: its igdb_id is memoised and returned
ResolveFromCache(st, title, cached) ==
    [games |-> st.games, cache |-> st.cache,
     memo |-> MemoSet(st.memo, MemoKey(title), cached.igdb_id), id |-> cached.igdb_id,
     remote_calls |-> 0, search_calls |-> 0]

\* results = search_games(title, limit=1) has returned sr: the id of the first result, or
\* None, is memoised and returned
ResolveFromSearch(st, title, sr) ==
    LET found == IF sr.results = <<>> THEN None ELSE sr.results[1].igdb_id
    IN  [games |-> sr.games, cache |-> sr.cache,
         memo |-> MemoSet(st.memo, MemoKey(title), found), id |-> found,
         remote_calls |-> sr.remote_calls, search_calls |-> 1]

resolve_igdb_id_remembering(st, title, env) ==
    IF MemoKey(title) \in DOMAIN st.memo
    THEN [games |-> st.games, cache |-> st.cache, memo |-> st.memo,
          id |-> st.memo[MemoKey(title)], remote_calls |-> 0, search_calls |-> 0]
    ELSE IF get_cached_igdb(st.cache, title) # {}
    THEN ResolveFromCache(st, title, CHOOSE payload \in get_cached_igdb(st.cache, title) : TRUE)
    ELSE ResolveFromSearch(st, title, search_games(st, title, 1, env))

\* _resolve_igdb_id(title) on st = [games, cache, memo].
\* Result: [games, cache, memo, id, remote_calls, search_calls].
resolve_igdb_id(st, title, env) ==
    LET cached_id == MemoGet(st.memo, MemoKey(title))
        cached == get_cached_igdb(st.cache, title)
    IN  IF cached_id # None
        THEN [games |-> st.games, cache |-> st.cache, memo |-> st.memo,
              id |-> cached_id, remote_calls |-> 0, search_calls |-> 0]
        ELSE IF cached # {}
        THEN ResolveFromCache(st, title, CHOOSE payload \in cached : TRUE)
        ELSE ResolveFromSearch(st, title, search_games(st, title, 1, env))

(***************************************************************************)
(* fetchers/gamepass.py: the Game Pass feed.                               *)
(*                                                                         *)
(* An optional str (the value of entry.get(key)) is the str or NoneStr.    *)
(* An entry of the feed is a record of the keys the model's feeds use:     *)
(* productId, name, title, igdbId, releaseDate, platforms, isPc, notes;    *)
(* every other key the code reads is absent.  dict = FALSE is a JSON value *)
(* that is no object.                                                      *)
(***************************************************************************)
NoneStr == <<"<None>">>

\* x or y
PyOr(x, y) == IF x = NoneStr \/ x = <<>> THEN y ELSE x

\* str(x)
PyStr(x) == IF x = NoneStr THEN <<"N", "o", "n", "e">> ELSE x

\* datetime.utcnow().year
UtcNowYear == 2024

\* the mapping dict of _normalise_platform_token
PlatformMapping ==
    [k \in {wPc, wWindows, wWin, wPcGamePass} |-> wPc]
    @@ [k \in {wXbox, wConsole, wXboxConsole, wXboxGamePass, wXboxOne, wXboxSeries} |->
           wConsole]
    @@ [k \in {wCloud, wCloudGaming, wXcloud} |-> wCloud]

\* _normalise_platform_token(token); the result None is <<>> (both are falsy and the
\* function returns no empty str)
normalise_platform_token(token) ==
    LET lowered == Lower(Strip(token))
    IN  IF lowered = <<>> THEN <<>>
        ELSE IF lowered \in DOMAIN PlatformMapping THEN PlatformMapping[lowered]
        ELSE IF Contains(lowered, wCloud) THEN wCloud
        ELSE IF Contains(lowered, wPc) \/ Contains(lowered, wWindows) THEN wPc
        ELSE IF Contains(lowered, wXbox) \/ Contains(lowered, wConsole) THEN wConsole
        ELSE lowered

RECURSIVE SortedDescending(_)
SortedDescending(strs) ==
    IF strs = {} THEN <<>>
    ELSE LET greatest == CHOOSE x \in strs : \A y \in strs : StrLeq(y, x)
         IN  <<greatest>> \o SortedDescending(strs \ {greatest})

\* sorted(strs)
RECURSIVE Sorted(_)
Sorted(strs) ==
    IF strs = {} THEN <<>>
    ELSE LET least == CHOOSE x \in strs : \A y \in strs : StrLeq(x, y)
         IN  <<least>> \o Sorted(strs \ {least})

\* _extract_platforms(entry).  platforms is [kind, val] with kind "none", "str", "list"
\* (of str) or "int"; an int is no Iterable and is passed over.
extract_platforms(entry) ==
    LET p == entry.platforms
        listed == CASE p.kind = "str" -> {normalise_platform_token(p.val)}
                    [] p.kind = "list" ->
                           {normalise_platform_token(p.val[i]) : i \in 1..Len(p.val)}
                    [] OTHER -> {}
        flagged == IF entry.isPc THEN {wPc} ELSE {}
        found == (listed \ {<<>>}) \cup flagged
        platform_text == entry.notes
        noted == IF found = {} /\ platform_text # NoneStr
                 THEN {normalise_platform_token(platform_text)} \ {<<>>}
                 ELSE {}
        platforms == found \cup noted
        Present(token) == token \in platforms
    IN  SelectSeq(<<wConsole, wPc, wCloud>>, Present)
        \o Sorted(platforms \ {wConsole, wPc, wCloud})

\* identifier = str(entry.get("gamePassId") or entry.get("productId") or ... or
\* entry.get("name"))
EntryIdentifier(entry) == PyStr(PyOr(entry.productId, entry.name))

\* the for loop of _iter_api_entries over the entries of one page, from entry j on.
\* acc = [seen_ids, out].
RECURSIVE YieldEntries(_, _, _)
YieldEntries(entries, j, acc) ==
    IF j > Len(entries) THEN acc
    ELSE LET entry == entries[j]
             identifier == EntryIdentifier(entry)
             passed == ~entry.dict \/ identifier = <<>> \/ identifier \in acc.seen_ids
         IN  YieldEntries(entries, j + 1,
                          IF passed THEN acc
                          ELSE [seen_ids |-> acc.seen_ids \cup {identifier},
                                out |-> Append(acc.out, entry)])

\* _iter_api_entries forgetting what it accumulated when a request fails
RECURSIVE iter_api_entries_or_nothing(_, _, _)
iter_api_entries_or_nothing(feed, p, acc) ==
    IF p > Len(feed) THEN acc.out
    ELSE IF feed[p].kind = "error" THEN <<>>
    ELSE LET acc1 == YieldEntries(feed[p].entries, 1, acc)
         IN  IF feed[p].kind = "dict" /\ feed[p].next
             THEN iter_api_entries_or_nothing(feed, p + 1, acc1)
             ELSE acc1.out

\* _iter_api_entries: the entries it yields, in order.  feed[p] is the answer of the
\* server to the p-th request: kind "error" (transport error, bad status, no JSON,
\* neither list nor dict, entries that are no list), "list", or "dict" with its entries
\* and whether it names a next page.  A request past the end of feed fails.
RECURSIVE iter_api_entries(_, _, _)
iter_api_entries(feed, p, acc) ==
    IF p > Len(feed) \/ feed[p].kind = "error" THEN acc.out
    ELSE LET acc1 == YieldEntries(feed[p].entries, 1, acc)
         IN  IF feed[p].kind = "dict" /\ feed[p].next
             THEN iter_api_entries(feed, p + 1, acc1)
             ELSE acc1.out

\* title = entry.get("title") or entry.get("name")
EntryTitle(entry) == PyOr(entry.title, entry.name)

\* isinstance(title, str) and title.strip()
TitleUsable(title) == title # NoneStr /\ Strip(title) # <<>>

\* release_year of refresh_gamepass_us: releaseDate is an int or None
ReleaseYear(entry) ==
    IF entry.releaseDate # None /\ 1970 <= entry.releaseDate
       /\ entry.releaseDate <= UtcNowYear
    THEN entry.releaseDate ELSE None

\* records the remote identity API may return: two games of one lower-cased name, and
\* a second rendering of game 1
RecAb1 == [igdb_id |-> 1, name |-> sAb, alt_names |-> <<sb>>, first_release_year |-> 2001]
Recab2 == [igdb_id |-> 2, name |-> sab, alt_names |-> <<>>, first_release_year |-> None]
RecA1 == [igdb_id |-> 1, name |-> sA, alt_names |-> <<sab, sA>>, first_release_year |-> 1999]

RemoteRecords == {RecAb1, Recab2, RecA1}

\* the remote identity API during one cycle: down, knowing no game, or knowing the
\* games of the model
WorldAnswer(world, title) ==
    IF world # "full" THEN <<>>
    ELSE CASE Lower(Strip(title)) = sab -> <<RecAb1>>
           [] Lower(Strip(title)) = sb -> <<Recab2>>
           [] OTHER -> <<>>

\* the environment of the search_games call for title
RemoteEnv(world, title) ==
    [raises |-> world = "down", results |-> WorldAnswer(world, title), fail_at |-> 0,
     fail_kind |-> "none", tie |-> "lo"]

StoreFails(env, i, kind) == env.fail_at = i /\ env.fail_kind = kind

GamepassItem(entry, igdb_id, now) ==
    [service |-> "gamepass", igdb_id |-> igdb_id, region |-> "US",
     service_title |-> EntryTitle(entry),
     platforms |-> [kind |-> "list", val |-> extract_platforms(entry)],
     tier |-> "none", seen_at |-> now]

\* The state of the loop of refresh_gamepass_us is
\* st = [games, cache, memo, cat, inserted, raised, outcomes, written]; outcomes[i] is
\* "skip" (continue), "ok" (inserted += 1), "fail" (the except branch) or "abort" (an
\* exception leaves the loop); written lists the upsert_catalog_item calls that returned,
\* each by the number of its entry and the igdb_id it was given.
Outcome(st, what) == [st EXCEPT !.outcomes = Append(@, what)]

\* ensure_game_from_catalog(...) gave eg, then try: db.upsert_catalog_item(...) gave up;
\* inserted += 1; except Exception: LOGGER.warning
RecordWrites(st, i, igdb_id, eg, up) ==
    IF eg.raised THEN [Outcome(st, "abort") EXCEPT !.raised = TRUE]
    ELSE IF up.raised THEN [Outcome(st, "fail") EXCEPT !.games = eg.games]
    ELSE [Outcome(st, "ok") EXCEPT !.games = eg.games, !.cat = up.cat,
                                   !.inserted = @ + 1,
                                   !.written = Append(@, [entry |-> i,
                                                          igdb_id |-> igdb_id])]

WriteEntryOrStop(st, entry, igdb_id, i, now, env) ==
    IF igdb_id = None THEN [Outcome(st, "skip") EXCEPT !.raised = TRUE]
    ELSE RecordWrites(st, i, igdb_id,
                      ensure_game_from_catalog(st.games, EntryTitle(entry), igdb_id,
                                               ReleaseYear(entry),
                                               StoreFails(env, i, "ensure")),
                      upsert_catalog_item(st.cat, GamepassItem(entry, igdb_id, now),
                                          StoreFails(env, i, "upsert")))

\* the loop body from `if not igdb_id: continue` on
WriteEntry(st, entry, igdb_id, i, now, env) ==
    IF igdb_id = None THEN Outcome(st, "skip")
    ELSE RecordWrites(st, i, igdb_id,
                      ensure_game_from_catalog(st.games, EntryTitle(entry), igdb_id,
                                               ReleaseYear(entry),
                                               StoreFails(env, i, "ensure")),
                      upsert_catalog_item(st.cat, GamepassItem(entry, igdb_id, now),
                                          StoreFails(env, i, "upsert")))

\* igdb_id = _resolve_igdb_id(title) has returned r
WriteResolved(st, entry, r, i, now, env) ==
    WriteEntry([st EXCEPT !.games = r.games, !.cache = r.cache, !.memo = r.memo],
               entry, r.id, i, now, env)

\* the loop body for entry number i
ReconcileEntry(st, entry, i, now, env) ==
    IF ~TitleUsable(EntryTitle(entry)) THEN Outcome(st, "skip")
    ELSE IF entry.igdbId # None THEN WriteEntry(st, entry, entry.igdbId, i, now, env)
    ELSE WriteResolved(st, entry,
                       resolve_igdb_id([games |-> st.games, cache |-> st.cache,
                                        memo |-> st.memo],
                                       EntryTitle(entry),
                                       RemoteEnv(env.world, EntryTitle(entry))),
                       i, now, env)

\* the loop of refresh_gamepass_us over the yielded entries es, from entry i on
RECURSIVE GamepassLoop(_, _, _, _, _)
GamepassNext(next, es, i, now, env) ==
    IF next.raised THEN next ELSE GamepassLoop(next, es, i + 1, now, env)

GamepassLoop(st, es, i, now, env) ==
    IF i > Len(es) THEN st
    ELSE GamepassNext(ReconcileEntry(st, es[i], i, now, env), es, i, now, env)

\* refresh_gamepass_us() with GAMEPASS_MARKET unset (region "US") on
\* st = [games, cache, memo, cat].
\* Result: [games, cache, memo, cat, inserted, raised, outcomes, written].
refresh_gamepass_us(st, feed, now, env) ==
    GamepassLoop([games |-> st.games, cache |-> st.cache, memo |-> st.memo, cat |-> st.cat,
                  inserted |-> 0, raised |-> FALSE, outcomes |-> <<>>, written |-> <<>>],
                 iter_api_entries(feed, 1, [seen_ids |-> {}, out |-> <<>>]), 1, now, env)

(***************************************************************************)
(* fetchers/mock_gamepass.py and the POST /refresh endpoint of main.py.    *)
(*                                                                         *)
(* The data file mock_gamepass.json is the input raw_data: a list of       *)
(* entries [has_id, igdb_id, name, service_title, platforms,               *)
(* first_release_year]; has_id = FALSE is an entry without the key         *)
(* igdb_id.                                                                *)
(***************************************************************************)
MockItem(entry, now) ==
    [service |-> "gamepass", igdb_id |-> entry.igdb_id, region |-> "US",
     service_title |-> entry.service_title, platforms |-> entry.platforms,
     tier |-> "none", seen_at |-> now]

\* The state of the loop of refresh_mock_gamepass is
\* st = [games, cat, inserted, raised, outcomes].  Nothing in the loop catches:
\* ensure_game_from_catalog gave eg, then db.upsert_catalog_item gave up; inserted += 1
MockWrites(st, eg, up) ==
    IF eg.raised THEN [Outcome(st, "abort") EXCEPT !.raised = TRUE]
    ELSE IF up.raised THEN [Outcome(st, "fail") EXCEPT !.games = eg.games, !.raised = TRUE]
    ELSE [Outcome(st, "ok") EXCEPT !.games = eg.games, !.cat = up.cat, !.inserted = @ + 1]

\* the loop body for entry number i; int(entry["igdb_id"]) raises KeyError without the key
MockEntry(st, entry, i, now, env) ==
    IF ~entry.has_id THEN [Outcome(st, "abort") EXCEPT !.raised = TRUE]
    ELSE MockWrites(st,
                    ensure_game_from_catalog(st.games, entry.name, entry.igdb_id,
                                             entry.first_release_year,
                                             StoreFails(env, i, "ensure")),
                    upsert_catalog_item(st.cat, MockItem(entry, now),
                                        StoreFails(env, i, "upsert")))

\* the loop of refresh_mock_gamepass over raw_data, from entry i on
RECURSIVE MockLoop(_, _, _, _, _)
MockNext(next, raw_data, i, now, env) ==
    IF next.raised THEN next ELSE MockLoop(next, raw_data, i + 1, now, env)

MockLoop(st, raw_data, i, now, env) ==
    IF i > Len(raw_data) THEN st
    ELSE MockNext(MockEntry(st, raw_data[i], i, now, env), raw_data, i, now, env)

\* refresh_mock_gamepass() on st = [games, cat]; exists: MOCK_DATA_PATH.exists().
\* Result: [games, cat, inserted, raised, outcomes].
refresh_mock_gamepass(st, exists, raw_data, now, env) ==
    IF ~exists
    THEN [games |-> st.games, cat |-> st.cat, inserted |-> 0, raised |-> TRUE,
          outcomes |-> <<>>]
    ELSE MockLoop([games |-> st.games, cat |-> st.cat, inserted |-> 0, raised |-> FALSE,
                   outcomes |-> <<>>], raw_data, 1, now, env)

\* inserted = refresh_mock_gamepass() gave m:
\* return {"status": "ok", "counts": {"gamepass": inserted}}, unless it raised
RefreshReturn(m) ==
    [games |-> m.games, cat |-> m.cat, response |-> IF m.raised THEN "error" ELSE "ok",
     counts |-> IF m.raised THEN <<>> ELSE <<<<"gamepass", m.inserted>>>>,
     inserted |-> m.inserted, raised |-> m.raised, outcomes |-> m.outcomes]

\* POST /refresh.  enabled: _mock_data_enabled().  response is "ok" for the envelope
\* {"status": "ok", "counts": counts} and "error" when an exception leaves the handler;
\* counts is the sequence of <<service, count>> pairs.
\* Result: [games, cat, response, counts, inserted, raised, outcomes].
refresh(st, enabled, exists, raw_data, now, env) ==
    IF ~enabled
    THEN [games |-> st.games, cat |-> st.cat, response |-> "ok", counts |-> <<>>,
          inserted |-> 0, raised |-> FALSE, outcomes |-> <<>>]
    ELSE RefreshReturn(refresh_mock_gamepass(st, exists, raw_data, now, env))

(***************************************************************************)
(* main.py: GET /search.                                                   *)
(***************************************************************************)
UpperChar(c) == IF IsIn(LowerLetters, c) THEN UpperLetters[IndexIn(LowerLetters, c)] ELSE c

IsLetter(c) == IsIn(LowerLetters, c) \/ IsIn(UpperLetters, c)

\* str.title()
Title(s) ==
    [i \in 1..Len(s) |-> IF i = 1 \/ ~IsLetter(s[i - 1]) THEN UpperChar(s[i])
                         ELSE LowerChar(s[i])]

\* str.replace("_", " ")
ReplaceUnderscores(s) == [i \in 1..Len(s) |-> IF s[i] = "_" THEN " " ELSE s[i]]

PLATFORM_LABELS == (wConsole :> <<"C">> \o Tail(wConsole)) @@ (wPc :> <<"P", "C">>)
                   @@ (wCloud :> <<"C">> \o Tail(wCloud))

PLATFORM_ORDER == <<wConsole, wPc, wCloud>>

\* the second loop of _normalise_platforms: the tokens not seen so far, each once
RECURSIVE AppendUnseen(_, _, _)
AppendUnseen(tokens, i, ordered) ==
    IF i > Len(tokens) THEN ordered
    ELSE AppendUnseen(tokens, i + 1,
                      IF \E j \in 1..Len(ordered) : ordered[j] = tokens[i] THEN ordered
                      ELSE Append(ordered, tokens[i]))

\* _normalise_platforms(raw): raw is the platforms_json column, whose text json.loads
\* turns back into the stored list of str
normalise_platforms(raw) ==
    LET NonEmpty(token) == token # <<>>
        tokens == SelectSeq([i \in 1..Len(raw) |-> Lower(Strip(raw[i]))], NonEmpty)
        Listed(key) == \E i \in 1..Len(tokens) : tokens[i] = key
    IN  AppendUnseen(tokens, 1, SelectSeq(PLATFORM_ORDER, Listed))

\* _platform_labels(tokens)
platform_labels(tokens) ==
    [i \in 1..Len(tokens) |->
        IF tokens[i] \in DOMAIN PLATFORM_LABELS THEN PLATFORM_LABELS[tokens[i]]
        ELSE Title(ReplaceUnderscores(tokens[i]))]

\* the summary dict of _summarise_service for the row latest; the key tier is there for
\* psplus rows with a tier and is "none" otherwise
ServiceSummary(latest, service) ==
    [available |-> TRUE, service_title |-> latest.service_title,
     platforms |-> normalise_platforms(latest.platforms_json),
     platform_labels |-> platform_labels(normalise_platforms(latest.platforms_json)),
     first_seen_at |-> latest.first_seen_at, last_seen_at |-> latest.last_seen_at,
     tier |-> IF service = "psplus" THEN latest.tier ELSE "none"]

\* max(service_rows, key=lambda row: row.get("last_seen_at", ""))
LatestRow(service_rows) ==
    CHOOSE row \in service_rows :
        \A other \in service_rows : other.last_seen_at <= row.last_seen_at

\* _summarise_service(rows, service)
summarise_service(rows, service) ==
    IF {row \in rows : row.service = service} = {} THEN [available |-> FALSE]
    ELSE ServiceSummary(LatestRow({row \in rows : row.service = service}), service)

get_catalog_any_region(cat, igdb_id, region) == {r \in cat : r.igdb_id = igdb_id}

\* get_catalog_by_igdb(igdb_id, region="US"): ... WHERE igdb_id = ? AND region = ?
get_catalog_by_igdb(cat, igdb_id, region) ==
    {r \in cat : r.igdb_id = igdb_id /\ r.region = region}

SummaryServices == {"gamepass", "psplus", "ubisoftplus"}

\* the default of the parameter limit of search_games
DefaultLimit == 5

\* one element of results of search for one candidate
CandidateResult(cat, candidate) ==
    [name |-> candidate.name, igdb_id |-> candidate.igdb_id,
     first_release_year |-> candidate.first_release_year,
     services |-> [service \in SummaryServices |->
                      summarise_service(get_catalog_by_igdb(cat, candidate.igdb_id, "US"),
                                        service)]]

\* candidates = search_games(q) gave sr: return {"query": q, "results": results}
SearchResponse(sr, cat, q) ==
    [games |-> sr.games, cache |-> sr.cache, query |-> q,
     results |-> [i \in 1..Len(sr.results) |-> CandidateResult(cat, sr.results[i])]]

\* GET /search?q=... on st = [games, cache, cat].  Result: [games, cache, query, results].
search(st, q, env) ==
    SearchResponse(search_games([games |-> st.games, cache |-> st.cache], q, DefaultLimit,
                                env),
                   st.cat, q)

(***************************************************************************)
(* Inputs of the model.                                                    *)
(***************************************************************************)
MaxThreads == 2     \* concurrent callers of upsert_catalog_item
MaxLimit == 2       \* limit of search_games is in 1..MaxLimit

Thr == 1..MaxThreads

\* the keys the callers of the store use: they differ from the first one in one column
StoreKeys ==
    {<<"gamepass", 1, "US">>, <<"psplus", 1, "US">>, <<"gamepass", 2, "US">>,
     <<"gamepass", 1, "GB">>}

LstNone == [kind |-> "none", val |-> <<>>]
LstConsole == [kind |-> "list", val |-> <<wConsole>>]
LstConsolePc == [kind |-> "list", val |-> <<wConsole, wPc>>]
LstPc == [kind |-> "list", val |-> <<wPc>>]
LstInt == [kind |-> "int", val |-> 5]

\* what one sighting carries besides the key and the time
StorePayloads ==
    {[service_title |-> sab, platforms |-> LstConsolePc, tier |-> "none"],
     [service_title |-> sAb, platforms |-> LstPc, tier |-> "extra"]}

MkItem(k, p, t) ==
    [service |-> k[1], igdb_id |-> k[2], region |-> k[3],
     service_title |-> p.service_title, platforms |-> p.platforms, tier |-> p.tier,
     seen_at |-> t]

NoItem == MkItem(<<"gamepass", 1, "US">>, CHOOSE p \in StorePayloads : TRUE, 1)

IdleThread == [pc |-> "idle", item |-> NoItem, first_seen_at |-> 0]

\* the responses of the remote identity API to a search with this limit: at most
\* limit records, each game (igdb id) at most once
Responses(limit) ==
    {xs \in UNION {[1..m -> RemoteRecords] : m \in 0..limit} :
        \A i, j \in 1..Len(xs) : i # j => xs[i].igdb_id # xs[j].igdb_id}

\* the environments of one search_games(_, limit) call: the remote call raises, or it
\* returns at most limit records and at most one store write of the write-back raises
SearchEnvs(limit) ==
    {[raises |-> TRUE, results |-> <<>>, fail_at |-> 0, fail_kind |-> "none", tie |-> tie] :
        tie \in {"lo", "hi"}}
    \cup {[raises |-> FALSE, results |-> rs, fail_at |-> 0, fail_kind |-> "none",
           tie |-> "lo"] : rs \in Responses(limit)}
    \cup {[raises |-> FALSE, results |-> rs, fail_at |-> Len(rs), fail_kind |-> fk,
           tie |-> "lo"] :
            rs \in Responses(limit) \ {<<>>}, fk \in {"game", "cache"}}

\* the environments of the search_games(title, limit=1) call of _resolve_igdb_id
ResolveEnvs == {e \in SearchEnvs(1) : e.tie = "lo" /\ e.fail_kind # "game"}

SearchQueries == {sAb, sUnd, sSpA, sBlank}
ResolveTitles == {sab, sAb, sA, sC}
Limits == 1..MaxLimit

NoSearch ==
    [called |-> FALSE, query |-> <<>>, limit |-> 0,
     env |-> CHOOSE e \in SearchEnvs(1) : e.raises, results |-> <<>>]

NoResolve ==
    [called |-> FALSE, title |-> <<>>, id |-> None, remote_calls |-> 0,
     search_calls |-> 0, prior |-> None, prior_title |-> <<>>, prior_miss |-> FALSE,
     remote_down |-> FALSE, remote_results |-> <<>>, earlier_ids |-> {}]

MaxCycles == 2      \* reconciliation cycles per behaviour

\* entries of the Game Pass feed
GpEntry(pid, name, title, id, year, platforms, isPc, notes) ==
    [dict |-> TRUE, productId |-> pid, name |-> name, title |-> title, igdbId |-> id,
     releaseDate |-> year, platforms |-> platforms, isPc |-> isPc, notes |-> notes]

sP1 == <<"p", "1">>
sP2 == <<"p", "2">>

GpAb1 ==
    GpEntry(sP1, NoneStr, sAb, 1, 2001,
            [kind |-> "list", val |-> <<<<"X", "b", "o", "x", " ", "O", "n", "e">>, wWin>>],
            FALSE, NoneStr)
Gpab == GpEntry(sP2, sab, NoneStr, None, None, [kind |-> "str", val |-> wCloudGaming], FALSE, NoneStr)
GpB == GpEntry(NoneStr, sb, NoneStr, None, None, LstNone, TRUE, NoneStr)
Gpab2 == GpEntry(sP2, sab, NoneStr, 2, 1960, LstInt, FALSE, <<"o", "n", " ">> \o wXboxSeries)
GpNoTitle == GpEntry(NoneStr, NoneStr, NoneStr, 1, None, LstNone, FALSE, NoneStr)
GpEmptyName == GpEntry(NoneStr, <<>>, sAb, 1, None, LstNone, FALSE, NoneStr)
GpDupAb1 == GpEntry(sP1, sab, NoneStr, 2, None, LstPc, FALSE, NoneStr)
GpNotDict == [GpNoTitle EXCEPT !.dict = FALSE]
\* entries that carry a title and none of the identifier fields
GpTitleAb == GpEntry(NoneStr, NoneStr, sAb, 1, None, LstNone, FALSE, NoneStr)
GpTitleB == GpEntry(NoneStr, NoneStr, sb, 2, None, LstNone, FALSE, NoneStr)

Page(kind, entries, next) == [kind |-> kind, entries |-> entries, next |-> next]

\* the feeds of the model; the last page of each names no next page.  In feeds 4 and
\* 8 the request for the second page fails.
Feeds ==
    <<<<Page("dict", <<GpAb1, Gpab>>, FALSE)>>,
     <<Page("list", <<GpB, Gpab2>>, FALSE)>>,
     <<Page("dict", <<GpAb1, GpNotDict, GpNoTitle>>, TRUE),
       Page("dict", <<GpDupAb1, Gpab2, GpEmptyName>>, FALSE)>>,
     <<Page("dict", <<Gpab>>, TRUE), Page("error", <<>>, FALSE)>>,
     <<Page("error", <<>>, FALSE)>>,
     <<Page("list", <<Gpab, GpAb1>>, FALSE)>>,
     <<Page("dict", <<Gpab2, GpB>>, FALSE)>>,
     <<Page("dict", <<GpAb1, Gpab2>>, TRUE), Page("error", <<>>, FALSE),
       Page("dict", <<GpB>>, FALSE)>>>>

Worlds == {"down", "empty", "full"}

\* at most one store write of a cycle raises: the INSERT of ensure_game_from_catalog or
\* of upsert_catalog_item for entry fail_at
CycleFails ==
    {[fail_at |-> 0, fail_kind |-> "none"], [fail_at |-> 1, fail_kind |-> "ensure"],
     [fail_at |-> 1, fail_kind |-> "upsert"], [fail_at |-> 2, fail_kind |-> "upsert"]}

GamepassEnvs ==
    {[world |-> w, fail_at |-> f.fail_at, fail_kind |-> f.fail_kind] :
        w \in Worlds, f \in CycleFails}

MockEnvs == {[world |-> "down", fail_at |-> f.fail_at, fail_kind |-> f.fail_kind] :
                f \in {x \in CycleFails : x.fail_at < 2}}

\* entries of mock_gamepass.json
MockAb1 ==
    [has_id |-> TRUE, igdb_id |-> 1, name |-> sAb, service_title |-> sAb,
     platforms |-> LstConsolePc, first_release_year |-> 2001]
Mockab2 ==
    [has_id |-> TRUE, igdb_id |-> 2, name |-> sab, service_title |-> sab,
     platforms |-> LstNone, first_release_year |-> None]
MockBadPlatforms == [Mockab2 EXCEPT !.service_title = sUab, !.platforms = LstInt]
MockNoId == [MockAb1 EXCEPT !.has_id = FALSE]

MockData ==
    UNION {[1..m -> {MockAb1, Mockab2, MockBadPlatforms}] : m \in 0..2}
    \cup {<<MockNoId, MockAb1>>}

\* the calls of POST /refresh: seeding disabled, the data file missing, or a data
\* file and the store failures of the cycle
PostInputs ==
    {[enabled |-> FALSE, exists |-> TRUE, raw_data |-> <<>>,
      env |-> CHOOSE e \in MockEnvs : e.fail_at = 0],
     [enabled |-> TRUE, exists |-> FALSE, raw_data |-> <<>>,
      env |-> CHOOSE e \in MockEnvs : e.fail_at = 0]}
    \cup {[enabled |-> TRUE, exists |-> TRUE, raw_data |-> d, env |-> e] :
             d \in MockData, e \in MockEnvs}

NoRefresh ==
    [called |-> FALSE, kind |-> "none", rerun |-> FALSE, input |-> <<>>, total |-> 0,
     now |-> 0, env |-> CHOOSE e \in MockEnvs : e.fail_at = 0,
     first_env |-> CHOOSE e \in MockEnvs : e.fail_at = 0, raised |-> FALSE,
     inserted |-> 0, outcomes |-> <<>>, written |-> <<>>, first_written |-> <<>>,
     response |-> "none", counts |-> <<>>, cat_before |-> {}, games_before |-> {},
     cache_before |-> {}, memo_before |-> <<>>]

MaxTokens == 3      \* platform tokens of one feed entry

wUnknownthing == <<"u", "n", "k", "n", "o", "w", "n", "t", "h", "i", "n", "g">>
wSpZeta == <<" ", "Z", "e", "t", "a">>
wMac == <<"M", "a", "c">>
wEpic == <<"E", "p", "i", "c">>

PlatformTokens == {wXbox, wWindows, wUnknownthing, wSpZeta, wMac, wCloudGaming, sBlank}

\* the values of the platforms key: absent, one str, a list of at most MaxTokens str,
\* or a number
PlatformValues ==
    {LstNone, LstInt}
    \cup {[kind |-> "str", val |-> t] : t \in {wEpic, wXboxOne}}
    \cup {[kind |-> "list", val |-> ts] :
             ts \in UNION {[1..m -> PlatformTokens] : m \in 0..MaxTokens}}

\* the entries _extract_platforms is called with
PlatformEntries ==
    {GpEntry(NoneStr, sab, NoneStr, None, None, p, isPc, notes) :
        p \in PlatformValues, isPc \in BOOLEAN, notes \in {NoneStr, wMac}}

NoExtract == [called |-> FALSE, entry |-> Gpab, result |-> <<>>]

\* the searches that fill the Identity Store ahead of ensure_game_from_catalog
EnsureSearchEnvs ==
    {e \in SearchEnvs(1) : e.tie = "lo" /\ e.fail_kind = "none" /\ e.results # <<>>}

EnsureNames == {sAb, sab}
EnsureYears == {None, 2001}

\* the environments of the search_games call of GET /search
QueryEnvs ==
    {e \in SearchEnvs(MaxLimit) : e.tie = "lo" /\ e.fail_kind = "none"}

QueryTexts == {sAb, sb}

NoQuery == [called |-> FALSE, query |-> <<>>, results |-> <<>>, cat |-> {}]

MaxPages == 2       \* page requests counted in one fetch, and pages of a feed

\* the answers of the Game Pass API to one page request
PagingPages ==
    {Page("error", <<>>, FALSE), Page("list", <<GpAb1>>, FALSE),
     Page("dict", <<GpAb1, Gpab>>, TRUE), Page("dict", <<GpB>>, TRUE),
     Page("dict", <<Gpab>>, TRUE), Page("dict", <<GpNoTitle>>, TRUE),
     Page("dict", <<>>, TRUE), Page("dict", <<Gpab2, GpNoTitle>>, FALSE)}

\* the feeds _iter_api_entries is run on as a function: up to MaxPages answers
FetchEntries == {GpAb1, GpDupAb1, Gpab, GpTitleAb, GpTitleB, GpNotDict}

FetchPages ==
    {Page("error", <<>>, FALSE)}
    \cup {Page("dict", es, TRUE) : es \in UNION {[1..m -> FetchEntries] : m \in 0..2}}
    \cup {Page(kind, <<e>>, FALSE) : kind \in {"list", "dict"}, e \in FetchEntries}

FetchFeeds == UNION {[1..m -> FetchPages] : m \in 1..MaxPages}

NoFetch == [called |-> FALSE, feed |-> <<>>, out |-> <<>>]

\* pc is "idle" (no fetch yet), "request" (next_url is set: the loop is about to request
\* a page), "waiting" (client.get has been called) or "done" (the generator has ended);
\* requests counts the page requests of the fetch up to MaxPages
IdleFetch == [pc |-> "idle", seen_ids |-> {}, out |-> <<>>, requests |-> 0]

MaxTokenCalls == 3  \* _get_token calls per behaviour

\* the lifetimes the identity provider gives a token, and the seconds that pass
\* between calls
ExpiresIns == {0, 30, 60, 90, 150}
ClockSteps == {30, 60}

NoGetToken ==
    [called |-> FALSE, now |-> 0, has_credentials |-> FALSE, token |-> NoToken,
     exchanged |-> FALSE, raised |-> FALSE,
     cache_before |-> [value |-> NoToken, expires |-> None]]

IdleEnsure == [pc |-> "idle", name |-> <<>>, igdb_id |-> 1, first_release_year |-> None]

NoEnsure ==
    [called |-> FALSE, name |-> <<>>, igdb_id |-> 1, first_release_year |-> None,
     raised |-> FALSE, games_before |-> {}, games_after |-> {}]

(***************************************************************************)
(* Initial state: the schema has been created and the tables are empty;    *)
(* the memo is the empty dict.                                             *)
(***************************************************************************)
Init ==
    /\ games = {}
    /\ catalog_items = {}
    /\ igdb_cache = {}
    /\ igdb_lookup_cache = <<>>
    /\ threads = [t \in Thr |-> IdleThread]
    /\ seen_hist = [k \in StoreKeys |-> <<>>]
    /\ last_upsert = [called |-> FALSE, item |-> NoItem, raised |-> FALSE,
                      cat_before |-> {}]
    /\ last_search = NoSearch
    /\ last_resolve = NoResolve
    /\ ever_resolved = <<>>
    /\ missed_titles = {}
    /\ remote_resolved = [run |-> {}, earlier |-> {}]
    /\ last_refresh = NoRefresh
    /\ last_extract = NoExtract
    /\ last_ensure = NoEnsure
    /\ last_query = NoQuery
    /\ ensure_thread = IdleEnsure
    /\ token_cache = [value |-> NoToken, expires |-> None]
    /\ utcnow = 0
    /\ last_token = NoGetToken
    /\ fetch = IdleFetch
    /\ last_fetch = NoFetch
    /\ nops = 0

tables == <<games, catalog_items, igdb_cache>>
storeObs == <<seen_hist, last_upsert>>
identObs == <<last_search, last_resolve, ever_resolved, missed_titles, remote_resolved>>
refreshObs == <<last_refresh>>
\* the variables of the specifications further down, which the actions of the
\* specifications above leave alone
tokenVars == <<token_cache, utcnow, last_token>>
fetchVars == <<fetch, last_fetch>>
extraVars == <<last_extract, last_ensure, last_query, ensure_thread, tokenVars, fetchVars>>

(***************************************************************************)
(* SpecStore: sequential callers of upsert_catalog_item.                   *)
(***************************************************************************)
UpsertCatalogItem(k, p, t, store_fails) ==
    LET item == MkItem(k, p, t)
        res == upsert_catalog_item(catalog_items, item, store_fails)
    IN  /\ nops < MaxOps
        /\ nops' = nops + 1
        /\ catalog_items' = res.cat
        /\ seen_hist' = IF res.raised THEN seen_hist
                        ELSE [seen_hist EXCEPT ![k] = Append(@, t)]
        /\ last_upsert' = [called |-> TRUE, item |-> item, raised |-> res.raised,
                           cat_before |-> catalog_items]
        /\ UNCHANGED <<extraVars, games, igdb_cache, igdb_lookup_cache, threads, identObs,
                       refreshObs>>

NextStore ==
    \E k \in StoreKeys, p \in StorePayloads, t \in Times, f \in BOOLEAN :
        UpsertCatalogItem(k, p, t, f)

SpecStore == Init /\ [][NextStore]_vars

(***************************************************************************)
(* SpecRace: callers of upsert_catalog_item on threads of the request      *)
(* pool.  get_cursor commits at the end of each with block, so the SELECT  *)
(* and the INSERT of one call are two transactions and another caller's    *)
(* transactions may run between them.                                      *)
(***************************************************************************)
RaceKeys == {<<"gamepass", 1, "US">>, <<"gamepass", 2, "US">>}

RaceCall(th, k, p, t) ==
    /\ nops < MaxOps
    /\ threads[th].pc = "idle"
    /\ nops' = nops + 1
    /\ threads' = [threads EXCEPT ![th] = [pc |-> "select", item |-> MkItem(k, p, t),
                                           first_seen_at |-> 0]]
    /\ UNCHANGED <<extraVars, tables, igdb_lookup_cache, storeObs, identObs, refreshObs>>

RaceSelect(th) ==
    /\ threads[th].pc = "select"
    /\ threads' = [threads EXCEPT ![th].pc = "insert",
                                  ![th].first_seen_at =
                                      ReadFirstSeen(catalog_items, threads[th].item)]
    /\ UNCHANGED <<extraVars, tables, igdb_lookup_cache, storeObs, identObs, refreshObs, nops>>

RaceInsert(th) ==
    /\ threads[th].pc = "insert"
    /\ catalog_items' = WriteCatalogRow(catalog_items, threads[th].item,
                                        threads[th].first_seen_at)
    /\ seen_hist' = [seen_hist EXCEPT ![Key(threads[th].item)] =
                                          Append(@, threads[th].item.seen_at)]
    /\ last_upsert' = [called |-> TRUE, item |-> threads[th].item, raised |-> FALSE,
                       cat_before |-> catalog_items]
    /\ threads' = [threads EXCEPT ![th] = IdleThread]
    /\ UNCHANGED <<extraVars, games, igdb_cache, igdb_lookup_cache, identObs, refreshObs, nops>>

NextRace ==
    \/ \E th \in Thr, k \in RaceKeys, p \in StorePayloads, t \in Times :
           RaceCall(th, k, p, t)
    \/ \E th \in Thr : RaceSelect(th)
    \/ \E th \in Thr : RaceInsert(th)

SpecRace == Init /\ [][NextRace]_vars

(***************************************************************************)
(* SpecSearch: search_games called again and again (by GET /search).       *)
(***************************************************************************)
SearchGames(query, limit, env) ==
    LET res == search_games([games |-> games, cache |-> igdb_cache], query, limit, env)
    IN  /\ games' = res.games
        /\ igdb_cache' = res.cache
        /\ last_search' = [called |-> TRUE, query |-> query, limit |-> limit,
                           env |-> env, results |-> res.results]
        /\ UNCHANGED <<extraVars, catalog_items, igdb_lookup_cache, threads, storeObs,
                       last_resolve, ever_resolved, missed_titles, remote_resolved,
                       refreshObs, nops>>

NextSearch ==
    \E q \in SearchQueries, l \in Limits : \E env \in SearchEnvs(l) :
        SearchGames(q, l, env)

SpecSearch == Init /\ [][NextSearch]_vars

(***************************************************************************)
(* SpecResolve: _resolve_igdb_id called one call after the other in one    *)
(* process; Restart ends the process and starts the next one on the same   *)
(* database file.                                                          *)
(***************************************************************************)
ResolveIgdbId(title, env) ==
    LET st == [games |-> games, cache |-> igdb_cache, memo |-> igdb_lookup_cache]
        res == resolve_igdb_id(st, title, env)
        key == Lower(title)
        known == key \in DOMAIN ever_resolved
    IN  /\ nops < MaxOps
        /\ nops' = nops + 1
        /\ games' = res.games
        /\ igdb_cache' = res.cache
        /\ igdb_lookup_cache' = res.memo
        /\ last_resolve' =
               [called |-> TRUE, title |-> title, id |-> res.id,
                remote_calls |-> res.remote_calls, search_calls |-> res.search_calls,
                prior |-> IF known THEN ever_resolved[key].id ELSE None,
                prior_title |-> IF known THEN ever_resolved[key].title ELSE <<>>,
                prior_miss |-> key \in missed_titles,
                remote_down |-> env.raises, remote_results |-> env.results,
                earlier_ids |-> {q[2] : q \in {x \in remote_resolved.earlier :
                                                  x[1] = title}}]
        /\ ever_resolved' =
               IF res.id # None /\ ~known
               THEN [k \in DOMAIN ever_resolved \cup {key} |->
                        IF k = key THEN [id |-> res.id, title |-> title]
                        ELSE ever_resolved[k]]
               ELSE ever_resolved
        /\ missed_titles' = IF res.id = None THEN missed_titles \cup {key}
                            ELSE missed_titles \ {key}
        /\ remote_resolved' =
               IF res.remote_calls = 1 /\ ~env.raises /\ env.results # <<>>
               THEN [remote_resolved EXCEPT !.run = @ \cup {<<title, res.id>>}]
               ELSE remote_resolved
        /\ UNCHANGED <<extraVars, catalog_items, threads, storeObs, last_search, refreshObs>>

\* process exit and start: _igdb_lookup_cache = {} again, the database file is kept
Restart ==
    /\ nops < MaxOps
    /\ igdb_lookup_cache # <<>>
    /\ nops' = nops + 1
    /\ igdb_lookup_cache' = <<>>
    /\ ever_resolved' = <<>>
    /\ missed_titles' = {}
    /\ remote_resolved' = [run |-> {}, earlier |-> remote_resolved.earlier
                                                   \cup remote_resolved.run]
    /\ UNCHANGED <<extraVars, tables, threads, storeObs, last_search, last_resolve, refreshObs>>

NextResolve ==
    \/ \E t \in ResolveTitles : \E env \in ResolveEnvs : ResolveIgdbId(t, env)
    \/ Restart

SpecResolve == Init /\ [][NextResolve]_vars

(***************************************************************************)
(* SpecRefresh: reconciliation cycles, one after the other: POST /refresh  *)
(* (the mock fetcher) and refresh_gamepass_us.  The clock reading now of a *)
(* cycle is the number of the cycle.  Rerun runs the last Game Pass cycle  *)
(* once more on the same feed with the same clock reading.  A feed is      *)
(* named by its place in Feeds.                                            *)
(***************************************************************************)
\* the handler of POST /refresh has ended with res
PostReturns(input, now, env, res) ==
    /\ games' = res.games
    /\ catalog_items' = res.cat
    /\ last_refresh' =
           [called |-> TRUE, kind |-> "post", rerun |-> FALSE, input |-> input,
            total |-> Len(input), now |-> now, env |-> env, first_env |-> env,
            raised |-> res.raised, inserted |-> res.inserted, outcomes |-> res.outcomes,
            written |-> <<>>, first_written |-> <<>>, response |-> res.response,
            counts |-> res.counts, cat_before |-> catalog_items, games_before |-> games,
            cache_before |-> igdb_cache, memo_before |-> igdb_lookup_cache]
    /\ UNCHANGED <<extraVars, igdb_cache, igdb_lookup_cache, threads, storeObs, identObs>>

PostRefresh(enabled, exists, raw_data, env) ==
    /\ nops < MaxCycles
    /\ nops' = nops + 1
    /\ PostReturns(IF enabled /\ exists THEN raw_data ELSE <<>>, nops + 1, env,
                   refresh([games |-> games, cat |-> catalog_items], enabled, exists,
                           raw_data, nops + 1, env))

\* refresh_gamepass_us has ended with res
GamepassReturns(f, now, env, rerun, res) ==
    /\ games' = res.games
    /\ igdb_cache' = res.cache
    /\ igdb_lookup_cache' = res.memo
    /\ catalog_items' = res.cat
    /\ last_refresh' =
           [called |-> TRUE, kind |-> "gamepass", rerun |-> rerun, input |-> f,
            total |-> Len(iter_api_entries(Feeds[f], 1, [seen_ids |-> {}, out |-> <<>>])),
            now |-> now, env |-> env,
            first_env |-> IF rerun THEN last_refresh.env ELSE env,
            raised |-> res.raised, inserted |-> res.inserted,
            outcomes |-> res.outcomes, written |-> res.written,
            first_written |-> IF rerun THEN last_refresh.written ELSE res.written,
            response |-> "none", counts |-> <<>>, cat_before |-> catalog_items,
            games_before |-> games, cache_before |-> igdb_cache,
            memo_before |-> igdb_lookup_cache]
    /\ UNCHANGED <<extraVars, threads, storeObs, identObs>>

GamepassCycle(f, now, env, rerun) ==
    GamepassReturns(f, now, env, rerun,
                    refresh_gamepass_us([games |-> games, cache |-> igdb_cache,
                                         memo |-> igdb_lookup_cache,
                                         cat |-> catalog_items],
                                        Feeds[f], now, env))

RefreshGamepassUS(f, env) ==
    /\ nops < MaxCycles
    /\ nops' = nops + 1
    /\ GamepassCycle(f, nops + 1, env, FALSE)

Rerun ==
    /\ last_refresh.kind = "gamepass"
    /\ ~last_refresh.rerun
    /\ nops' = nops
    /\ GamepassCycle(last_refresh.input, last_refresh.now, last_refresh.env, TRUE)

NextRefresh ==
    \/ \E c \in PostInputs : PostRefresh(c.enabled, c.exists, c.raw_data, c.env)
    \/ \E f \in 1..Len(Feeds), env \in GamepassEnvs : RefreshGamepassUS(f, env)
    \/ Rerun

SpecRefresh == Init /\ [][NextRefresh]_vars

(***************************************************************************)
(* SpecPlatforms: _extract_platforms applied to one entry of a feed (the    *)
(* function reads and writes no state, so one call per behaviour covers    *)
(* it).                                                                    *)
(***************************************************************************)
ExtractPlatforms(entry) ==
    /\ ~last_extract.called
    /\ last_extract' = [called |-> TRUE, entry |-> entry,
                        result |-> extract_platforms(entry)]
    /\ UNCHANGED <<tables, igdb_lookup_cache, threads, storeObs, identObs, refreshObs,
                   last_ensure, last_query, ensure_thread, tokenVars, fetchVars, nops>>

NextPlatforms == \E entry \in PlatformEntries : ExtractPlatforms(entry)

SpecPlatforms == Init /\ [][NextPlatforms]_vars

(***************************************************************************)
(* SpecEnsure: ensure_game_from_catalog called directly, one call after    *)
(* the other, on an Identity Store that searches fill.                     *)
(***************************************************************************)
EnsureGameFromCatalog(name, igdb_id, first_release_year, store_fails) ==
    LET res == ensure_game_from_catalog(games, name, igdb_id, first_release_year,
                                        store_fails)
    IN  /\ nops < MaxOps
        /\ nops' = nops + 1
        /\ games' = res.games
        /\ last_ensure' = [called |-> TRUE, name |-> name, igdb_id |-> igdb_id,
                           first_release_year |-> first_release_year,
                           raised |-> res.raised, games_before |-> games,
                           games_after |-> res.games]
        /\ UNCHANGED <<catalog_items, igdb_cache, igdb_lookup_cache, threads, storeObs,
                       identObs, refreshObs, last_extract, last_query, ensure_thread,
                       tokenVars, fetchVars>>

NextEnsure ==
    \/ \E env \in EnsureSearchEnvs : SearchGames(sAb, 1, env)
    \/ \E name \in EnsureNames, igdb_id \in Ids, year \in EnsureYears, f \in BOOLEAN :
           EnsureGameFromCatalog(name, igdb_id, year, f)

SpecEnsure == Init /\ [][NextEnsure]_vars

(***************************************************************************)
(* SpecQuery: GET /search requests between upserts of membership rows; the *)
(* upsert made as operation number n observes time n.                      *)
(***************************************************************************)
Search(q, env) ==
    LET res == search([games |-> games, cache |-> igdb_cache, cat |-> catalog_items], q,
                      env)
    IN  /\ nops < MaxOps
        /\ nops' = nops + 1
        /\ games' = res.games
        /\ igdb_cache' = res.cache
        /\ last_query' = [called |-> TRUE, query |-> q, results |-> res.results,
                          cat |-> catalog_items]
        /\ UNCHANGED <<catalog_items, igdb_lookup_cache, threads, storeObs, identObs,
                       refreshObs, last_extract, last_ensure, ensure_thread, tokenVars,
                       fetchVars>>

NextQuery ==
    \/ \E k \in StoreKeys, p \in StorePayloads : UpsertCatalogItem(k, p, nops + 1, FALSE)
    \/ \E q \in QueryTexts, env \in QueryEnvs : Search(q, env)

SpecQuery == Init /\ [][NextQuery]_vars

(***************************************************************************)
(* SpecEnsureRace: ensure_game_from_catalog, called by a refresh on one    *)
(* thread of the request pool, while GET /search requests run search_games *)
(* on others.  db.get_game and db.upsert_game are a transaction each       *)
(* (get_cursor commits at the end of each with block), so the write-back   *)
(* of a search may run between them.                                       *)
(***************************************************************************)
\* existing = db.get_game(igdb_id); if existing: return
EnsureGetGame(name, igdb_id, first_release_year) ==
    /\ nops < MaxOps
    /\ ensure_thread.pc = "idle"
    /\ nops' = nops + 1
    /\ ensure_thread' =
           IF get_game(games, igdb_id) # {} THEN IdleEnsure
           ELSE [pc |-> "upsert", name |-> name, igdb_id |-> igdb_id,
                 first_release_year |-> first_release_year]
    /\ UNCHANGED <<tables, igdb_lookup_cache, threads, storeObs, identObs, refreshObs,
                   last_extract, last_ensure, last_query, tokenVars, fetchVars>>

\* db.upsert_game(igdb_id=igdb_id, name=name, alt_names=[name], ...)
EnsureUpsertGame ==
    /\ ensure_thread.pc = "upsert"
    /\ games' = upsert_game(games, ensure_thread.igdb_id, ensure_thread.name,
                            <<ensure_thread.name>>, ensure_thread.first_release_year)
    /\ ensure_thread' = IdleEnsure
    /\ UNCHANGED <<catalog_items, igdb_cache, igdb_lookup_cache, threads, storeObs,
                   identObs, refreshObs, last_extract, last_ensure, last_query, tokenVars,
                   fetchVars, nops>>

NextEnsureRace ==
    \/ \E name \in EnsureNames, igdb_id \in Ids, year \in EnsureYears :
           EnsureGetGame(name, igdb_id, year)
    \/ EnsureUpsertGame
    \/ \E env \in EnsureSearchEnvs : SearchGames(sAb, 1, env)

SpecEnsureRace == Init /\ [][NextEnsureRace]_vars

(***************************************************************************)
(* SpecToken: _get_token called again and again while the clock advances.  *)
(***************************************************************************)
GetToken(has_credentials, fails, expires_in) ==
    LET res == get_token(token_cache, utcnow, has_credentials,
                         [fails |-> fails,
                          token |-> [serial |-> nops + 1, issued_at |-> utcnow,
                                     expires_in |-> expires_in]])
    IN  /\ nops < MaxTokenCalls
        /\ nops' = nops + 1
        /\ token_cache' = res.cache
        /\ last_token' = [called |-> TRUE, now |-> utcnow,
                          has_credentials |-> has_credentials, token |-> res.token,
                          exchanged |-> res.exchanged, raised |-> res.raised,
                          cache_before |-> token_cache]
        /\ UNCHANGED <<tables, igdb_lookup_cache, threads, storeObs, identObs, refreshObs,
                       last_extract, last_ensure, last_query, ensure_thread, utcnow,
                       fetchVars>>

ClockAdvances(seconds) ==
    /\ utcnow + seconds <= MaxTokenCalls * 60
    /\ utcnow' = utcnow + seconds
    /\ UNCHANGED <<tables, igdb_lookup_cache, threads, storeObs, identObs, refreshObs,
                   last_extract, last_ensure, last_query, ensure_thread, token_cache,
                   last_token, fetchVars, nops>>

NextToken ==
    \/ \E has_credentials \in BOOLEAN, fails \in BOOLEAN, expires_in \in ExpiresIns :
           GetToken(has_credentials, fails, expires_in)
    \/ \E seconds \in ClockSteps : ClockAdvances(seconds)

SpecToken == Init /\ [][NextToken]_vars

(***************************************************************************)
(* SpecFetch: _iter_api_entries as a function of the answers of the        *)
(* upstream, one run per behaviour.                                        *)
(* SpecPaging: the while loop of _iter_api_entries, one page request per   *)
(* pass; the Game Pass API answers each request as it likes.  Every        *)
(* request has a timeout, so a request made is answered (by a page or by   *)
(* an error) and the loop goes on as long as next_url is set               *)
(* (SpecPagingLive).                                                       *)
(***************************************************************************)
\* next_url = base_url; params = {}; seen_ids = set()
IterApiEntries ==
    /\ fetch.pc \in {"idle", "done"}
    /\ fetch' = [pc |-> "request", seen_ids |-> {}, out |-> <<>>, requests |-> 0]
    /\ UNCHANGED <<tables, igdb_lookup_cache, threads, storeObs, identObs, refreshObs,
                   last_extract, last_ensure, last_query, ensure_thread, tokenVars,
                   last_fetch, nops>>

\* while next_url: response = client.get(next_url, params=params)
RequestPage ==
    /\ fetch.pc = "request"
    /\ fetch' = [fetch EXCEPT !.pc = "waiting",
                              !.requests = IF @ < MaxPages THEN @ + 1 ELSE @]
    /\ UNCHANGED <<tables, igdb_lookup_cache, threads, storeObs, identObs, refreshObs,
                   last_extract, last_ensure, last_query, ensure_thread, tokenVars,
                   last_fetch, nops>>

\* the rest of the pass, the API having answered page and the pass having yielded
\* acc = [seen_ids, out]: next_url is set again only by a dict with a next link
PageAnswered(page, acc) ==
    [pc |-> IF page.kind = "dict" /\ page.next THEN "request" ELSE "done",
     seen_ids |-> acc.seen_ids, out |-> acc.out, requests |-> fetch.requests]

ReceivePage(page) ==
    /\ fetch.pc = "waiting"
    /\ fetch' = PageAnswered(page,
                             IF page.kind = "error"
                             THEN [seen_ids |-> fetch.seen_ids, out |-> fetch.out]
                             ELSE YieldEntries(page.entries, 1,
                                               [seen_ids |-> fetch.seen_ids,
                                                out |-> fetch.out]))
    /\ UNCHANGED <<tables, igdb_lookup_cache, threads, storeObs, identObs, refreshObs,
                   last_extract, last_ensure, last_query, ensure_thread, tokenVars,
                   last_fetch, nops>>

\* list(_iter_api_entries(client, base_url)) against an upstream that answers feed
FetchFeed(feed) ==
    /\ ~last_fetch.called
    /\ last_fetch' = [called |-> TRUE, feed |-> feed,
                      out |-> iter_api_entries(feed, 1, [seen_ids |-> {}, out |-> <<>>])]
    /\ UNCHANGED <<tables, igdb_lookup_cache, threads, storeObs, identObs, refreshObs,
                   last_extract, last_ensure, last_query, ensure_thread, tokenVars,
                   fetch, nops>>

NextFetch == \E feed \in FetchFeeds : FetchFeed(feed)

SpecFetch == Init /\ [][NextFetch]_vars

NextPaging ==
    \/ IterApiEntries
    \/ RequestPage
    \/ \E page \in PagingPages : ReceivePage(page)

SpecPaging == Init /\ [][NextPaging]_vars

SpecPagingLive ==
    SpecPaging /\ WF_vars(RequestPage) /\ WF_vars(\E page \in PagingPages : ReceivePage(page))

(***************************************************************************)
(* SpecAll: the operations of the system one after the other in any order: *)
(* upserts of membership rows, searches, resolutions, process restarts and *)
(* reconciliation cycles.                                                  *)
(***************************************************************************)
\* the inputs of SpecAll: one or two of each kind
AllPosts == {c \in PostInputs : c.raw_data \in {<<MockAb1, Mockab2>>, <<MockBadPlatforms>>}}

AllSearchEnvs ==
    {e \in SearchEnvs(1) : e.tie = "lo" /\ e.fail_kind # "cache"
                           /\ e.results \in {<<>>, <<RecA1>>}}

AllCycleEnvs == {e \in GamepassEnvs : e.world = "full"}

NextAll ==
    \/ /\ nops < MaxCycles
       /\ \E k \in RaceKeys, p \in StorePayloads, f \in BOOLEAN :
              UpsertCatalogItem(k, p, nops + 1, f)
    \/ /\ ~last_search.called
       /\ \E env \in AllSearchEnvs : SearchGames(sAb, 1, env)
    \/ /\ nops < MaxCycles
       /\ \E t \in {sab, sC}, env \in AllSearchEnvs : ResolveIgdbId(t, env)
    \/ nops < MaxCycles /\ Restart
    \/ \E c \in AllPosts : PostRefresh(c.enabled, c.exists, c.raw_data, c.env)
    \/ \E f \in 1..2, env \in AllCycleEnvs : RefreshGamepassUS(f, env)
    \/ Rerun

SpecAll == Init /\ [][NextAll]_vars

(***************************************************************************)
(* Claims about the catalog store.                                         *)
(***************************************************************************)
RowsOf(k) == {r \in catalog_items : Key(r) = k}

StrictlyIncreasing(ts) == \A i \in 1..(Len(ts) - 1) : ts[i] < ts[i + 1]

\* C1: after N sequential upsert_catalog_item calls on a key that had no row, with
\* strictly increasing observation times t1 < ... < tN, the key has exactly one row,
\* whose first_seen_at is t1 and whose last_seen_at is tN.
C1_FirstAndLastSeen ==
    \A k \in StoreKeys :
        (seen_hist[k] # <<>> /\ StrictlyIncreasing(seen_hist[k]))
        => /\ Cardinality(RowsOf(k)) = 1
           /\ \A r \in RowsOf(k) :
                  /\ r.first_seen_at = seen_hist[k][1]
                  /\ r.last_seen_at = seen_hist[k][Len(seen_hist[k])]

\* C1 witness: three calls with increasing times on one key have completed
C1_Witness ==
    \E k \in StoreKeys :
        /\ Len(seen_hist[k]) >= 3
        /\ StrictlyIncreasing(seen_hist[k])
        /\ \E r \in RowsOf(k) : r.first_seen_at < r.last_seen_at

\* C2: every membership row has first_seen_at <= last_seen_at, whatever the
\* observation times of the upserts were.
C2_FirstSeenLeqLastSeen ==
    \A r \in catalog_items : r.first_seen_at <= r.last_seen_at

\* C3: under concurrent upserts of one key the stored first_seen_at, once set,
\* never changes to a later value.
C3_FirstSeenNeverLater ==
    [][\A r \in catalog_items : \A r2 \in catalog_items' :
           Key(r) = Key(r2) => r2.first_seen_at <= r.first_seen_at]_vars

(***************************************************************************)
(* Claims about identity resolution and search.                            *)
(***************************************************************************)
\* C5: once _resolve_igdb_id has returned an id for a title, every later call in the
\* same process with the same title, compared case-insensitively, returns that id and
\* issues no remote search call.
C5_ResolvedTitleIsMemoized ==
    (last_resolve.called /\ last_resolve.prior # None)
    => /\ last_resolve.id = last_resolve.prior
       /\ last_resolve.remote_calls = 0

\* C5 witness: a title resolved before is resolved again under another spelling
C5_Witness ==
    /\ last_resolve.called
    /\ last_resolve.prior # None
    /\ last_resolve.prior_title # last_resolve.title
    /\ last_resolve.id = last_resolve.prior

\* C6: after a call for a title returned None, the next call for that title in the
\* same process returns None and makes no remote search call and no search_games call.
C6_MissIsMemoized ==
    (last_resolve.called /\ last_resolve.prior_miss)
    => /\ last_resolve.id = None
       /\ last_resolve.remote_calls = 0
       /\ last_resolve.search_calls = 0

\* the stored games whose name or one of whose alternate names contains q, case-insensitively
GamesContaining(q) ==
    {r \in games :
        \/ Contains(Lower(r.name), Lower(q))
        \/ \E i \in 1..Len(JsonLoads(r.alt_names_json)) :
               Contains(Lower(JsonLoads(r.alt_names_json)[i]), Lower(q))}

Min(a, b) == IF a < b THEN a ELSE b

\* C7: when the remote identity API raises, search_games(query, limit) returns the
\* stored games whose name or alternate names contain the (stripped, non-empty) query
\* case-insensitively, ordered by name, at most limit of them, and [] when there is none.
C7_FallbackReturnsContainingGames ==
    (last_search.called /\ last_search.env.raises /\ Strip(last_search.query) # <<>>)
    => LET q == Strip(last_search.query)
           res == last_search.results
       IN  /\ Len(res) = Min(last_search.limit, Cardinality(GamesContaining(q)))
           /\ \A i \in 1..Len(res) : \E r \in GamesContaining(q) : res[i] = serialise_cached(r)
           /\ \A i, j \in 1..Len(res) : i < j => StrLeq(res[i].name, res[j].name)

\* the remote call of the last search_games succeeded with at least one record and no
\* store write raised
RemoteSucceeded ==
    /\ last_search.called
    /\ Strip(last_search.query) # <<>>
    /\ ~last_search.env.raises
    /\ last_search.env.results # <<>>
    /\ last_search.env.fail_kind = "none"

GameHolds(rec) ==
    \E g \in games :
        /\ g.igdb_id = rec.igdb_id
        /\ g.name = rec.name
        /\ JsonLoads(g.alt_names_json) = rec.alt_names
        /\ g.first_release_year = rec.first_release_year

CacheHolds(name, rec) ==
    \E row \in igdb_cache : row.name = Lower(name) /\ row.payload_json = rec

\* C10 as stated: after a search_games whose remote call succeeded, the Identity Store
\* holds, for every returned record, a game of that igdb_id with the record's name,
\* alternate names and release year, and the cache holds the record under its
\* lower-cased name.
C10_EveryRecordStored ==
    RemoteSucceeded
    => \A i \in 1..Len(last_search.results) :
           /\ GameHolds(last_search.results[i])
           /\ CacheHolds(last_search.results[i].name, last_search.results[i])

\* the last record of recs that agrees with rec on the lower-cased name
LastWithName(recs, rec) ==
    recs[CHOOSE i \in 1..Len(recs) :
            /\ Lower(recs[i].name) = Lower(rec.name)
            /\ \A j \in (i + 1)..Len(recs) : Lower(recs[j].name) # Lower(rec.name)]

\* C10 amended: ... the Identity Store holds, for every returned record, a game of that
\* igdb_id with the record's fields, and the cache holds under the record's lower-cased
\* name the last returned record with that lower-cased name.
C10_LastRecordOfNameCached ==
    RemoteSucceeded
    => \A i \in 1..Len(last_search.results) :
           /\ GameHolds(last_search.results[i])
           /\ CacheHolds(last_search.results[i].name,
                         LastWithName(last_search.results, last_search.results[i]))

\* C10 witness: a successful response with two records of one lower-cased name
C10_Witness ==
    /\ RemoteSucceeded
    /\ Len(last_search.results) = 2
    /\ Lower(last_search.results[1].name) = Lower(last_search.results[2].name)
    /\ CacheHolds(last_search.results[1].name, last_search.results[2])
    /\ GameHolds(last_search.results[1])

\* C11: a title that _resolve_igdb_id resolved to id g through a successful remote
\* search in one run is resolved to g again in a later run (memo empty, database kept)
\* in which the remote identity API is unavailable, whatever the title is.
C11_ResolvedAgainWithoutRemote ==
    (last_resolve.called /\ last_resolve.remote_down)
    => \A g \in last_resolve.earlier_ids : last_resolve.id = g

\* the last _resolve_igdb_id call was for a title whose previous call in this process
\* returned None, and the remote identity search now has a match for it
MissThenMatch ==
    /\ last_resolve.called
    /\ last_resolve.prior_miss
    /\ ~last_resolve.remote_down
    /\ last_resolve.remote_results # <<>>

\* C19: a title whose resolution missed is resolved by a later call in the same process
\* once the remote identity search returns a match for it: the remembered miss does
\* not keep _resolve_igdb_id from searching again and returning the id.
C19_MissResolvesLater ==
    MissThenMatch
    => /\ last_resolve.id # None
       /\ last_resolve.search_calls = 1
          => last_resolve.id = last_resolve.remote_results[1].igdb_id

\* C19 witness: after a miss the title was searched again and the id of the remote
\* match was returned and memoized
C19_Witness ==
    /\ MissThenMatch
    /\ last_resolve.search_calls = 1
    /\ last_resolve.remote_calls = 1
    /\ last_resolve.id = last_resolve.remote_results[1].igdb_id
    /\ MemoGet(igdb_lookup_cache, MemoKey(last_resolve.title)) = last_resolve.id

(***************************************************************************)
(* Claims about reconciliation cycles.                                     *)
(***************************************************************************)
\* the last cycle was the second run of a Game Pass cycle on the same feed at the same
\* clock reading, and both runs reconciled the same entries: the same
\* upsert_catalog_item calls returned, in the same order
RerunAlike ==
    /\ last_refresh.rerun
    /\ last_refresh.written = last_refresh.first_written

MembershipWriteFails(i) ==
    \/ StoreFails(last_refresh.env, i, "upsert")
    \/ /\ last_refresh.kind = "post"
       /\ PlatformsRaises(last_refresh.input[i].platforms)

\* the last cycle processed a batch in which nothing failed but membership writes
OnlyMembershipWritesFail ==
    /\ last_refresh.called
    /\ last_refresh.total > 0
    /\ last_refresh.env.fail_kind # "ensure"
    /\ last_refresh.kind = "post"
       => \A i \in 1..Len(last_refresh.input) : last_refresh.input[i].has_id

CountOf(outcomes, what) == Cardinality({i \in 1..Len(outcomes) : outcomes[i] = what})

\* C8: in a reconciliation cycle (refresh_gamepass_us and refresh_mock_gamepass) the
\* failure of one entry's membership write does not stop the batch: every entry is
\* processed, only the entries whose write fails are not upserted, the function
\* returns, and the count it returns is the number of upserts that succeeded.
C8_FailedWriteDoesNotStopBatch ==
    OnlyMembershipWritesFail
    => /\ ~last_refresh.raised
       /\ Len(last_refresh.outcomes) = last_refresh.total
       /\ \A i \in 1..Len(last_refresh.outcomes) :
              last_refresh.outcomes[i] = "fail" => MembershipWriteFails(i)
       /\ last_refresh.inserted = CountOf(last_refresh.outcomes, "ok")

\* C9: POST /refresh always answers with the success envelope, with a count for each
\* configured service.
C9_RefreshAlwaysAnswersOk ==
    (last_refresh.called /\ last_refresh.kind = "post")
    => last_refresh.response = "ok"

(***************************************************************************)
(* Claims about the feed adapter.                                          *)
(***************************************************************************)
\* the str items of the platforms value of an entry
RawTokens(entry) ==
    CASE entry.platforms.kind = "str" -> {entry.platforms.val}
      [] entry.platforms.kind = "list" ->
             {entry.platforms.val[i] : i \in 1..Len(entry.platforms.val)}
      [] OTHER -> {}

\* the normalized tokens of an entry: those of its platforms value and its flags, or,
\* when these give none, that of its notes
NormalizedTokens(entry) ==
    LET signals == ({normalise_platform_token(t) : t \in RawTokens(entry)} \ {<<>>})
                   \cup (IF entry.isPc THEN {wPc} ELSE {})
    IN  IF signals = {} /\ entry.notes # NoneStr
        THEN {normalise_platform_token(entry.notes)} \ {<<>>}
        ELSE signals

\* the place of a token in the output order: console, pc, cloud, then the others
PlatformRank(token) ==
    CASE token = wConsole -> 1 [] token = wPc -> 2 [] token = wCloud -> 3 [] OTHER -> 4

\* C12: the output of _extract_platforms holds each normalized token of the entry
\* exactly once: console, pc, cloud first, in that order, then every unrecognized
\* token, lower-cased, in alphabetical order; {xbox, windows, unknownthing} gives
\* [console, pc, unknownthing] and an entry without platform signals gives [].
C12_PlatformsOrdered ==
    last_extract.called
    => LET out == last_extract.result
           entry == last_extract.entry
       IN  /\ {out[i] : i \in 1..Len(out)} = NormalizedTokens(entry)
           /\ \A i, j \in 1..Len(out) : i < j =>
                  /\ out[i] # out[j]
                  /\ PlatformRank(out[i]) <= PlatformRank(out[j])
                  /\ PlatformRank(out[i]) = 4 => StrLess(out[i], out[j])
           /\ \A i \in 1..Len(out) : out[i] = Lower(out[i]) /\ out[i] = Strip(out[i])
           /\ RawTokens(entry) = {wXbox, wWindows, wUnknownthing} /\ ~entry.isPc
              => out = <<wConsole, wPc, wUnknownthing>>
           /\ (RawTokens(entry) = {} /\ ~entry.isPc /\ entry.notes = NoneStr)
              => out = <<>>

\* C12 witness: the tokens unknownthing, windows, xbox, listed in that order, have
\* given [console, pc, unknownthing]
C12_Witness ==
    /\ last_extract.called
    /\ last_extract.entry.platforms = [kind |-> "list",
                                       val |-> <<wUnknownthing, wWindows, wXbox>>]
    /\ ~last_extract.entry.isPc
    /\ last_extract.result = <<wConsole, wPc, wUnknownthing>>

(***************************************************************************)
(* Claims about the life of rows.                                          *)
(***************************************************************************)
GameIds(g) == {r.igdb_id : r \in g}

MembershipKeys(cat) == {Key(r) : r \in cat}

\* C13: no operation removes a game or a membership row: over every step of search,
\* resolve, refresh and upsert operations the set of stored game ids and the set of
\* stored (service, game, region) keys grow or stay equal.
C13_RowsAreNeverRemoved ==
    [][/\ GameIds(games) \subseteq GameIds(games')
       /\ MembershipKeys(catalog_items) \subseteq MembershipKeys(catalog_items')]_vars

\* C13 witness: a game and its membership row have been written again, with other
\* values, by a later operation
C13_Witness ==
    /\ nops = MaxCycles
    /\ \E g \in games : g.igdb_id = 1 /\ g.name = sA
    /\ \E r \in catalog_items :
           Key(r) = <<"gamepass", 1, "US">> /\ r.first_seen_at < r.last_seen_at

(***************************************************************************)
(* Claims about ensure_game_from_catalog.                                  *)
(***************************************************************************)
\* the last ensure_game_from_catalog call returned, and a game of its igdb_id was
\* (was not) in the Identity Store when it was made
EnsuredExisting ==
    /\ last_ensure.called
    /\ ~last_ensure.raised
    /\ get_game(last_ensure.games_before, last_ensure.igdb_id) # {}

EnsuredAbsent ==
    /\ last_ensure.called
    /\ ~last_ensure.raised
    /\ get_game(last_ensure.games_before, last_ensure.igdb_id) = {}

\* C14: ensure_game_from_catalog(name, igdb_id, ...) is create-if-absent: when a game
\* of that igdb_id exists the call leaves its name, alternate names and first release
\* year unchanged; when none exists it creates one with the given name, the alternate
\* names [name] and the given release year.
C14_EnsureCreatesIfAbsent ==
    /\ EnsuredExisting
       => get_game(last_ensure.games_after, last_ensure.igdb_id)
              = get_game(last_ensure.games_before, last_ensure.igdb_id)
    /\ EnsuredAbsent
       => /\ Cardinality(get_game(last_ensure.games_after, last_ensure.igdb_id)) = 1
          /\ \A g \in get_game(last_ensure.games_after, last_ensure.igdb_id) :
                 /\ g.name = last_ensure.name
                 /\ JsonLoads(g.alt_names_json) = <<last_ensure.name>>
                 /\ g.first_release_year = last_ensure.first_release_year
    /\ (last_ensure.called /\ ~last_ensure.raised)
       => \A g \in last_ensure.games_before :
              g.igdb_id # last_ensure.igdb_id => g \in last_ensure.games_after

\* C14 witness: the call found the richer record a search had stored, under another
\* name and with alternate names, and left it as it was
C14_Witness ==
    /\ EnsuredExisting
    /\ \E g \in get_game(last_ensure.games_after, last_ensure.igdb_id) :
           /\ g.name # last_ensure.name
           /\ Len(JsonLoads(g.alt_names_json)) = 2
           /\ g.first_release_year # last_ensure.first_release_year

(***************************************************************************)
(* Claims about GET /search.                                               *)
(***************************************************************************)
\* the rows the catalog store held for (service, game, "US") when the last request
\* was served
RowsAtQuery(service, igdb_id) ==
    {r \in last_query.cat : Key(r) = <<service, igdb_id, "US">>}

\* C15: for each candidate returned by /search and each of gamepass, psplus and
\* ubisoftplus, the summary has available = true exactly when the catalog store holds a
\* row for (service, game, US); then service_title, first_seen_at and last_seen_at are
\* those of the row of that service with the greatest last_seen_at; without a row the
\* summary is {available: false}.
C15_SummaryMatchesCatalog ==
    last_query.called
    => \A i \in 1..Len(last_query.results) : \A service \in SummaryServices :
           LET summary == last_query.results[i].services[service]
               rows == RowsAtQuery(service, last_query.results[i].igdb_id)
           IN  /\ summary.available <=> rows # {}
               /\ rows = {} => DOMAIN summary = {"available"}
               /\ rows # {}
                  => \E r \in rows :
                         /\ \A o \in rows : o.last_seen_at <= r.last_seen_at
                         /\ summary.service_title = r.service_title
                         /\ summary.first_seen_at = r.first_seen_at
                         /\ summary.last_seen_at = r.last_seen_at

\* C15 witness: a candidate with a gamepass row seen twice in US and rows in another
\* region only for no service: gamepass is available, psplus is not
C15_Witness ==
    /\ last_query.called
    /\ \E i \in 1..Len(last_query.results) :
           /\ last_query.results[i].services["gamepass"].available
           /\ last_query.results[i].services["gamepass"].first_seen_at
                  < last_query.results[i].services["gamepass"].last_seen_at
           /\ ~last_query.results[i].services["psplus"].available
           /\ ~last_query.results[i].services["ubisoftplus"].available

\* row is a game as the write-back of search_games stores it
SearchStored(row) ==
    \E rec \in RemoteRecords :
        row = GameRow(rec.igdb_id, rec.name, rec.alt_names, rec.first_release_year)

\* C16: when ensure_game_from_catalog and the write-back of a concurrent search_games
\* target the same igdb_id, no interleaving lets the catalog-derived record overwrite
\* the record written by the search: once the write-back has stored a game, its fields
\* are never replaced by ensure_game_from_catalog.
C16_EnsureNeverOverwritesSearch ==
    [][\A g \in games : \A g2 \in games' :
           (SearchStored(g) /\ g2.igdb_id = g.igdb_id) => SearchStored(g2)]_vars

(***************************************************************************)
(* Claims about the columns of a membership row.                           *)
(***************************************************************************)
\* the last upsert_catalog_item call returned and its key had a row before it
UpsertedExisting ==
    /\ last_upsert.called
    /\ ~last_upsert.raised
    /\ KeyRows(last_upsert.cat_before, last_upsert.item) # {}

\* C17: an upsert_catalog_item on a key that already has a row replaces service_title,
\* platforms and tier by the values of the new observation (the platforms are the new
\* ones, not a union with the old ones) and sets last_seen_at to the new observation
\* time, while first_seen_at keeps the value stored before the call.
C17_UpsertReplacesColumns ==
    UpsertedExisting
    => /\ Cardinality(RowsOf(Key(last_upsert.item))) = 1
       /\ \A r \in RowsOf(Key(last_upsert.item)) :
              /\ r.service_title = last_upsert.item.service_title
              /\ r.platforms_json = PlatformsList(last_upsert.item.platforms)
              /\ r.tier = last_upsert.item.tier
              /\ r.last_seen_at = last_upsert.item.seen_at
              /\ \A old \in KeyRows(last_upsert.cat_before, last_upsert.item) :
                     r.first_seen_at = old.first_seen_at

\* C17 witness: a row seen on console and pc is seen again, later, on pc only and under
\* another title and tier
C17_Witness ==
    /\ UpsertedExisting
    /\ last_upsert.item.platforms = LstPc
    /\ \E old \in KeyRows(last_upsert.cat_before, last_upsert.item) :
           /\ old.platforms_json = <<wConsole, wPc>>
           /\ old.service_title # last_upsert.item.service_title
           /\ old.tier # last_upsert.item.tier
           /\ old.last_seen_at < last_upsert.item.seen_at
    /\ \E r \in RowsOf(Key(last_upsert.item)) : r.platforms_json = <<wPc>>

(***************************************************************************)
(* Claims about the entries of a Game Pass cycle.                          *)
(***************************************************************************)
\* the entries the feed of the last Game Pass cycle yielded
YieldedEntries ==
    iter_api_entries(Feeds[last_refresh.input], 1, [seen_ids |-> {}, out |-> <<>>])

\* the state of the loop of the last Game Pass cycle after its first k entries
LoopAfter(k) ==
    GamepassLoop([games |-> last_refresh.games_before, cache |-> last_refresh.cache_before,
                  memo |-> last_refresh.memo_before, cat |-> last_refresh.cat_before,
                  inserted |-> 0, raised |-> FALSE, outcomes |-> <<>>, written |-> <<>>],
                 SubSeq(YieldedEntries, 1, k), 1, last_refresh.now, last_refresh.env)

\* entry i of the last Game Pass cycle has a usable title and no igdb id, and
\* _resolve_igdb_id returned None for it
Unresolved(i) ==
    /\ TitleUsable(EntryTitle(YieldedEntries[i]))
    /\ YieldedEntries[i].igdbId = None
    /\ last_refresh.outcomes[i] = "skip"

\* C18: in refresh_gamepass_us an entry whose title cannot be resolved (no igdb id on
\* the entry, _resolve_igdb_id returns None) is skipped without error: it creates or
\* changes no game row and no membership row, it does not increase the count, and the
\* entries after it are still processed.
C18_UnresolvedEntryIsSkipped ==
    (last_refresh.called /\ last_refresh.kind = "gamepass")
    => \A i \in 1..Len(last_refresh.outcomes) :
           Unresolved(i)
           => /\ LoopAfter(i).games = LoopAfter(i - 1).games
              /\ LoopAfter(i).cat = LoopAfter(i - 1).cat
              /\ LoopAfter(i).inserted = LoopAfter(i - 1).inserted
              /\ ~LoopAfter(i).raised
              /\ i < last_refresh.total => Len(last_refresh.outcomes) > i

\* C18 witness: the first entry of a cycle was unresolved and the second was upserted
C18_Witness ==
    /\ last_refresh.called
    /\ last_refresh.kind = "gamepass"
    /\ last_refresh.outcomes = <<"skip", "ok">>
    /\ Unresolved(1)
    /\ last_refresh.inserted = 1
    /\ Cardinality(catalog_items) = Cardinality(last_refresh.cat_before) + 1

(***************************************************************************)
(* Claims about the bearer token.                                          *)
(***************************************************************************)
\* the time from which _get_token must no longer answer with token: 60 seconds before
\* its expiry
RefreshDue(token) == token.issued_at + token.expires_in - 60

\* the last _get_token call had credentials and answered from the cache
AnsweredFromCache ==
    /\ last_token.called
    /\ last_token.has_credentials
    /\ ~last_token.exchanged
    /\ ~last_token.raised

\* the last _get_token call had credentials and found the cache empty or its token due
\* for refresh
MustExchange ==
    /\ last_token.called
    /\ last_token.has_credentials
    /\ \/ last_token.cache_before.value = NoToken
       \/ last_token.now >= RefreshDue(last_token.cache_before.value)

\* C20: _get_token refreshes the bearer token with a 60-second safety margin: a token
\* is returned from the cache only at times strictly earlier than issue time +
\* expires_in - 60 s; a call at or after that time, or with an empty cache, makes a new
\* credential exchange and caches its result; a cached token is never returned at or
\* after its real expiry.
C20_TokenRefreshedWithMargin ==
    /\ AnsweredFromCache
       => /\ last_token.token = last_token.cache_before.value
          /\ last_token.token # NoToken
          /\ last_token.now < RefreshDue(last_token.token)
          /\ last_token.now < last_token.token.issued_at + last_token.token.expires_in
    /\ MustExchange
       => /\ last_token.exchanged \/ last_token.raised
          /\ last_token.exchanged
             => /\ last_token.token.serial > last_token.cache_before.value.serial
                /\ token_cache.value = last_token.token

\* C20 witness: a token of 150 seconds was answered from the cache 60 seconds after its
\* issue and replaced by a new exchange 90 seconds after its issue
C20_Witness ==
    /\ MustExchange
    /\ last_token.exchanged
    /\ last_token.cache_before.value.expires_in = 150
    /\ last_token.now = RefreshDue(last_token.cache_before.value)
    /\ last_token.cache_before.value.serial = 1
    /\ last_token.token.serial = 3

(***************************************************************************)
(* Claims about the pagination of the feed.                                *)
(***************************************************************************)
\* C21: the pagination loop of _iter_api_entries always terminates: whatever the
\* upstream answers, answers that each carry a next link or continuation token
\* included, a fetch ends after finitely many page requests.
C21_FetchTerminates == (fetch.pc \in {"request", "waiting"}) ~> (fetch.pc = "done")

\* the entries of the pages the fetch has received, in order: the pages up to the
\* first failing request or the first page that names no next page
RECURSIVE ReceivedEntries(_, _)
ReceivedEntries(feed, p) ==
    IF p > Len(feed) \/ feed[p].kind = "error" THEN <<>>
    ELSE feed[p].entries
         \o (IF feed[p].kind = "dict" /\ feed[p].next THEN ReceivedEntries(feed, p + 1)
             ELSE <<>>)

\* the identifier value an entry carries: the first of its identifier fields that is
\* present (NoneStr: it carries none)
IdentifierValue(entry) == PyOr(entry.productId, entry.name)

ShareIdentifier(a, b) ==
    IdentifierValue(a) # NoneStr /\ IdentifierValue(a) = IdentifierValue(b)

FetchYields(entry) == \E k \in 1..Len(last_fetch.out) : last_fetch.out[k] = entry

Withheld(received, i) ==
    /\ received[i].dict
    /\ ~FetchYields(received[i])

\* C22: a dict entry of the upstream is withheld only if an earlier entry of the same
\* fetch carried the same identifier value; two entries that share no identifier value,
\* two entries that carry only distinct titles included, are both yielded.
C22_WithheldOnlyAsDuplicate ==
    last_fetch.called =>
        \A i \in 1..Len(ReceivedEntries(last_fetch.feed, 1)) :
            Withheld(ReceivedEntries(last_fetch.feed, 1), i) =>
                \E j \in 1..(i - 1) :
                    /\ ReceivedEntries(last_fetch.feed, 1)[j].dict
                    /\ ShareIdentifier(ReceivedEntries(last_fetch.feed, 1)[j],
                                       ReceivedEntries(last_fetch.feed, 1)[i])

\* the number of the first request of feed that fails, from request p on (0: none
\* fails)
RECURSIVE FailingRequest(_, _)
FailingRequest(feed, p) ==
    IF p > Len(feed) THEN 0
    ELSE IF feed[p].kind = "error" THEN p
    ELSE IF feed[p].kind = "dict" /\ feed[p].next THEN FailingRequest(feed, p + 1)
    ELSE 0

\* the entries of pages 1..k of feed, in order
RECURSIVE EntriesOfPages(_, _)
EntriesOfPages(feed, k) ==
    IF k = 0 THEN <<>> ELSE EntriesOfPages(feed, k - 1) \o feed[k].entries

FailedPage == FailingRequest(Feeds[last_refresh.input], 1)

\* the entries yielded from the pages before the failing request
EarlierEntries ==
    YieldEntries(EntriesOfPages(Feeds[last_refresh.input], FailedPage - 1), 1,
                 [seen_ids |-> {}, out |-> <<>>]).out

MembershipKept(igdb_id) ==
    \E row \in catalog_items :
        /\ row.service = "gamepass"
        /\ row.igdb_id = igdb_id
        /\ row.region = "US"
        /\ row.last_seen_at = last_refresh.now

\* C23: when the request for page k of a fetch fails, _iter_api_entries requests no
\* further page, and the entries yielded from pages 1..k-1 are all reconciled: the
\* rows they upserted are in the store, no row of before the cycle is gone, and
\* refresh_gamepass_us does not raise on account of the page (a cycle that raised
\* stopped at a store error of an earlier entry, before the page was requested).
C23_FailedPageKeepsEarlierEntries ==
    (last_refresh.called /\ last_refresh.kind = "gamepass" /\ FailedPage > 0)
    => /\ YieldedEntries = EarlierEntries
       /\ last_refresh.total = Len(EarlierEntries)
       /\ IF last_refresh.raised
          THEN last_refresh.outcomes[Len(last_refresh.outcomes)] = "abort"
          ELSE /\ Len(last_refresh.outcomes) = Len(EarlierEntries)
               /\ last_refresh.inserted = Len(last_refresh.written)
       /\ \A i \in 1..Len(last_refresh.written) :
              MembershipKept(last_refresh.written[i].igdb_id)
       /\ \A row \in last_refresh.cat_before :
              Key(row) \in MembershipKeys(catalog_items)

\* C23 witness: the second request of a three-page feed failed after both entries of
\* the first page were upserted next to a row of an earlier cycle
C23_Witness ==
    /\ last_refresh.called
    /\ last_refresh.kind = "gamepass"
    /\ FailedPage = 2
    /\ Len(Feeds[last_refresh.input]) = 3
    /\ ~last_refresh.raised
    /\ last_refresh.outcomes = <<"ok", "ok">>
    /\ last_refresh.cat_before # {}
    /\ MembershipKept(1)
    /\ MembershipKept(2)

(***************************************************************************)
(* Claims about what a membership upsert leaves alone.                     *)
(***************************************************************************)
\* a step of upsert_catalog_item: the observer records a new call
UpsertStep == last_upsert' # last_upsert /\ last_upsert'.called

OtherRows(cat, item) == {row \in cat : Key(row) # Key(item)}

\* C24: upsert_catalog_item on a key (service, game, region) changes only the row of
\* that key: every membership row of another key, every game row and every
\* identity-cache row is the same after the call as before it.
C24_UpsertChangesOnlyItsRow ==
    [][UpsertStep
       => /\ OtherRows(catalog_items', last_upsert'.item)
             = OtherRows(catalog_items, last_upsert'.item)
          /\ games' = games
          /\ igdb_cache' = igdb_cache]_vars

\* C24 witness: an upsert has just written the row of its key in a store that holds a
\* row of another key of the same game, game rows and identity-cache rows
C24_Witness ==
    /\ last_upsert.called
    /\ ~last_upsert.raised
    /\ last_upsert.item.seen_at = nops
    /\ KeyRows(last_upsert.cat_before, last_upsert.item)
       # KeyRows(catalog_items, last_upsert.item)
    /\ \E row \in OtherRows(catalog_items, last_upsert.item) :
           row.igdb_id = last_upsert.item.igdb_id
    /\ games # {}
    /\ igdb_cache # {}

====
